---------------------------- MODULE Spec2Model ----------------------------
(***************************************************************************)
(* Face-identity matching core of the Smart-Attendance-System backend:    *)
(* the embedding store (utils/embeddings.py), the gallery cache and the   *)
(* matcher (utils/recognition.py, live/recognizer.py), the liveness       *)
(* evaluator and the head-turn challenge (utils/liveness.py), the         *)
(* class-photo scan and the benchmark (routes/attendance.py), the         *)
(* feature-extraction engine (utils/face_engine.py), the enrollment route *)
(* (routes/embeddings.py), the face crops (utils/embeddings.py), the      *)
(* centroid tracker (live/tracker.py) and the live attendance loop        *)
(* (live/live_attendance.py).                                              *)
(*                                                                         *)
(* Numbers.  Feature vectors are integer tuples whose Euclidean norm is   *)
(* an integer, so that L2 normalisation is exact in fixed point: a        *)
(* normalised row has length Unit, and a cosine similarity is an integer  *)
(* in -Unit*Unit .. Unit*Unit (25 stands for 1.0, 10 for 0.4).  The       *)
(* epsilon 1e-8 of the code only matters for the zero vector, which it    *)
(* maps to the zero vector; float32 rounding is not modelled.             *)
(***************************************************************************)
EXTENDS Integers, Sequences, FiniteSets, TLC

VARIABLES
    fs,           \* [Roots -> [Slots -> file]]: the <view>.npy files under each root
    faces,        \* [Students -> Nat]: the .jpg files in the student's faces directory
    delRet,       \* the counts the most recent write returned, when it was a delete
    clock,        \* the filesystem's current modification-time tick
    max_samples,  \* the max_samples argument every save call passes
    cache,        \* _GALLERY_CACHE: [Roots -> cache entry, or NoCacheEntry]
    nextId,       \* identity of the next object build_gallery allocates
    pc,           \* per thread: position inside load_gallery_cached
    root,         \* per thread: the emb_root argument of the call
    latest,       \* per thread: local `latest`
    items,        \* per thread: local `items`
    ret,          \* per thread: the (G, meta) pair the call returned
    hist,         \* history: per slot, the vectors saved since the slot was absent
    lastSave,     \* history: the most recent write, when it was a save
    fresh,        \* history: per thread, no write since the call began
    stable,       \* history: per root, the object a write-free call last returned
    expect,       \* history: per thread, `stable` of its root when the call began
    used,         \* operation counters that bound the model
    mIn,          \* matcher: the (G, meta, query, threshold) under test
    mOut,         \* matcher: results of the matcher functions on mIn
    lvIn,         \* liveness: the inputs of evaluate_liveness under test
    lvOut,        \* liveness: the verdict of evaluate_liveness on lvIn
    chIn,         \* challenge: the (frames, challenge) under test
    chOut,        \* challenge: the verdict of evaluate_liveness_challenge on chIn
    tkIn,         \* top-K: the (G, meta, query) under test
    tkOut,        \* top-K: the k passed to top_k_matches and what it returned
    scIn,         \* scan: the request, detected faces, gallery and database under test
    scOut,        \* scan: per debug flag, the response of scan_image to scIn
    bmOut,        \* scan: per debug flag, the response of benchmark to scIn
    engine,       \* face_engine._engine: 0 for None, else the identity of the engine object
    lock,         \* face_engine._lock: the thread that holds it, or "free"
    models,       \* both model files exist on disk
    epc,          \* per thread: position inside get_engine
    eret,         \* per thread: what its last get_engine call returned (0 for None)
    inits,        \* history: the number of _init_engine executions
    xIn,          \* extraction: the photo, gallery and settings of the request under test
    xOut,         \* extraction: the engine the request got and its response
    dbViews,      \* enrollment: the (student_id, view_type) rows of face_embeddings
    apc,          \* enrollment: per thread, position inside add_embedding
    areq,         \* enrollment: per thread, the slot and the embedding of its request
    aresp,        \* enrollment: per thread, the status of its last response, and
                  \* whether the request wrote a sample
    crIn,         \* crop: the image size, box and pad under test
    crOut,        \* crop: the bounds crop_face_xyxy computed and the pixels it sliced
    tracks,       \* tracker: self.tracks in insertion order, entries [id, box, missing]
    next_id,      \* tracker: self.next_id
    max_missing,  \* tracker: self.max_missing
    tret,         \* tracker: the list the last update returned
    tmatched,     \* history: the ids of the tracks the last update matched
    tgone,        \* history: the ids of the tracks removed so far
    last_marked,  \* live: student_id -> time of the last recorded mark (0: no entry)
    track_votes,  \* live: track_id -> [sid, cnt], the candidate and its votes
    now,          \* live: time.time() of the current frame, in seconds
    frame_i,      \* live: the number of frames read
    lparams,      \* live: confirm_frames, cooldown_seconds, recognize_every_n_frames,
                  \* threshold and the gallery the recognizer loaded
    streak,       \* history: per track, the student of its last fresh recognition and
                  \* the votes given to that student since another one was recognised
    posts         \* history: the mark requests posted in the last frame

vars == << fs, faces, delRet, clock, max_samples, cache, nextId, pc, root, latest, items, ret,
           hist, lastSave, fresh, stable, expect, used, mIn, mOut, lvIn, lvOut,
           chIn, chOut, tkIn, tkOut, scIn, scOut, bmOut,
           engine, lock, models, epc, eret, inits, xIn, xOut,
           dbViews, apc, areq, aresp, crIn, crOut,
           tracks, next_id, max_missing, tret, tmatched, tgone,
           last_marked, track_votes, now, frame_i, lparams, streak, posts >>

storeVars == << fs, faces, delRet, clock, max_samples, hist, lastSave >>
cacheVars == << cache, nextId, pc, root, latest, items, ret, fresh, stable, expect >>
challengeVars == << chIn, chOut >>
topkVars == << tkIn, tkOut >>
scanVars == << scIn, scOut, bmOut >>
engineVars == << engine, lock, models, epc, eret, inits >>
extractVars == << xIn, xOut >>
enrollVars == << dbViews, apc, areq, aresp >>
cropVars == << crIn, crOut >>
trackerVars == << tracks, next_id, max_missing, tret, tmatched, tgone >>
markVars == << last_marked, track_votes, now, frame_i, lparams, streak, posts >>
extraVars == << extractVars, enrollVars, cropVars, trackerVars, markVars >>
notExtract == << enrollVars, cropVars, trackerVars, markVars >>   \* extraVars without extractVars
notEnroll == << extractVars, cropVars, trackerVars, markVars >>   \* extraVars without enrollVars
notCrop == << extractVars, enrollVars, trackerVars, markVars >>   \* extraVars without cropVars
notTracker == << extractVars, enrollVars, cropVars, markVars >>   \* extraVars without trackerVars
notLive == << extractVars, enrollVars, cropVars >>   \* extraVars without trackerVars, markVars
restVars == << challengeVars, topkVars, scanVars, engineVars, extraVars >>
pureVars  == << mIn, mOut, lvIn, lvOut, restVars >>

-----------------------------------------------------------------------------
(* Bounds of the model                                                     *)

MaxM == 2            \* max_samples ranges over 1..MaxM
MaxSaves == 4        \* save calls per run of the store specification
MaxEnv == 1          \* file corruptions by the environment per such run
MaxDeletes == 1      \* delete calls per such run
MaxClock == 2        \* modification-time ticks
MaxWrites == 2       \* writes to the store per run of the cache specification
MaxCalls == 2        \* load_gallery_cached calls per such run
MaxSeqWrites == 3    \* writes to the store per run of the sequential specification
MaxSeqCalls == 3     \* load_gallery_cached calls per such run
MaxFrames == 3       \* frames of one head-turn challenge
MaxFaces == 2        \* faces detected in one scanned image
MaxEngineCalls == 3  \* get_engine calls per run of the engine specification
MaxRootWrites == 2    \* writes per run of the specification of two roots
MaxRootCalls == 3     \* load_gallery_cached calls per run of that specification
MaxAdds == 3          \* add_embedding requests per run of the enrollment specification
MaxOutside == 2       \* how far a box of the crop specification reaches outside the image
MaxPad == 1           \* largest pad of the crop specification
MaxUpdates == 4       \* tracker.update calls per run of the tracker specification
MaxMissingLimit == 2  \* largest max_missing a tracker is built with
MaxLiveFrames == 5    \* frames per run of the live attendance specification
MaxModelChanges == 1 \* times the model files appear or disappear per such run

Unit == 5            \* length of an L2-normalised row (fixed-point 1.0)

Students == {"s1", "s2"}
Views == {"front"}
Slots == Students \X Views
EMB_DIR == "students"
TEST_DIR == "test_students"      \* a second gallery directory, never written by the routes
Roots == {EMB_DIR, TEST_DIR}
ServedRoots == {EMB_DIR}          \* the root the routes pass to FaceRecognizer
Threads == {"t1", "t2"}

\* os.listdir order of the slots (implementation-defined; fixed here)
SlotOrder == << <<"s1", "front">>, <<"s2", "front">> >>

\* Feature vectors: dimension 2, and one of dimension 1 (another extractor)
StoreVecs == { <<3, 4>>, <<4, 3>>, <<0, 5>>, <<5>> }
CacheVecs == { <<3, 4>>, <<5>> }

-----------------------------------------------------------------------------
(* Vectors                                                                 *)

RECURSIVE SumSq(_, _)
SumSq(v, i) == IF i = 0 THEN 0 ELSE v[i] * v[i] + SumSq(v, i - 1)

RECURSIVE ISqrtFrom(_, _)
ISqrtFrom(n, r) == IF (r + 1) * (r + 1) > n THEN r ELSE ISqrtFrom(n, r + 1)

\* np.linalg.norm(v)
Norm(v) == ISqrtFrom(SumSq(v, Len(v)), 0)

\* v / (np.linalg.norm(v) + 1e-8)
L2Normalize(v) ==
    IF Norm(v) = 0 THEN v
    ELSE [i \in DOMAIN v |-> (v[i] * Unit) \div Norm(v)]

RECURSIVE DotUpTo(_, _, _)
DotUpTo(a, b, i) == IF i = 0 THEN 0 ELSE a[i] * b[i] + DotUpTo(a, b, i - 1)

\* one entry of G @ q, for a row and a query of the same dimension
Dot(a, b) == DotUpTo(a, b, Len(a))

-----------------------------------------------------------------------------
(* Embedding store: utils/embeddings.py                                    *)

Absent == [kind |-> "absent", rows |-> << >>, mtime |-> 0]
NpyFile(rows, t) == [kind |-> "npy", rows |-> rows, mtime |-> t]
CorruptFile(t) == [kind |-> "corrupt", rows |-> << >>, mtime |-> t]

\* Files the program did not write.  "corrupt": np.load raises; "empty": an array
\* of size 0; "scalar": a well-formed .npy holding a 0-d array, whose rows are
\* what np.vstack makes of it (np.atleast_2d: one row of width 1)
BadKinds == { "corrupt", "empty", "scalar" }
BadFile(bad, t) ==
    IF bad = "corrupt" THEN CorruptFile(t)
    ELSE IF bad = "empty" THEN NpyFile(<< >>, t)
    ELSE [kind |-> "scalar", rows |-> << <<Unit>> >>, mtime |-> t]

\* A faulty variant of LastRows: the first max_samples rows are kept (new[:max_samples])
FirstRows(new, m) == SubSeq(new, 1, m)

\* new[-max_samples:, :]
LastRows(new, m) == SubSeq(new, Len(new) - m + 1, Len(new))

\* np.vstack([old, emb.reshape(1, -1)]) raises unless the row widths agree (an
\* array of size 0 is reshaped to one row of width 0)
VstackRaises(old, emb) == Len(old) = 0 \/ Len(old[1]) # Len(emb)

\* A faulty variant of AppendCapped: the cut happens one row too late
AppendCappedLate(old, emb, m) ==
    LET new == Append(old, emb)
    IN  IF Len(new) > m + 1 THEN LastRows(new, m) ELSE new

\* np.vstack, then the cut to the last max_samples rows
AppendCapped(old, emb, m) ==
    LET new == Append(old, emb)
    IN  IF Len(new) > m THEN LastRows(new, m) ELSE new

\* A faulty variant of ExceptRows: the exception is swallowed and nothing is stored
ExceptRowsNone(emb) == << >>

\* `except Exception: np.save(emb_path, emb.reshape(1, -1))`
ExceptRows(emb) == << emb >>

\* The rows save_face_and_embedding leaves in the file at emb_path
SavedRows(file, emb, m) ==
    IF file.kind # "absent"
    THEN IF file.kind = "corrupt" \/ VstackRaises(file.rows, emb)
         THEN ExceptRows(emb)
         ELSE AppendCapped(file.rows, emb, m)
    ELSE << emb >>

\* Which branch of save_face_and_embedding a call takes
SaveBranch(file, emb) ==
    IF file.kind = "absent" THEN "first"
    ELSE IF file.kind = "corrupt" \/ VstackRaises(file.rows, emb) THEN "except"
    ELSE "append"


NoHist == [seq |-> << >>, ok |-> TRUE]

NoSave == [slot |-> << >>, emb |-> << >>, some |-> FALSE,
           pre |-> [kind |-> "absent", rows |-> << >>], raised |-> FALSE]

\* `repeat`: the write before was a delete of the same identity; `before`: the
\* number of files that delete removed
NoDelRet == [some |-> FALSE, sid |-> "", embeddings_deleted |-> 0,
             faces_deleted |-> 0, repeat |-> FALSE, before |-> 0]

\* History bookkeeping shared by every write to the store: a write ends the
\* write-free period of every call in flight and of every root.
WriteResets ==
    /\ fresh' = [t \in Threads |-> FALSE]
    /\ stable' = [r \in Roots |-> 0]
    /\ expect' = [t \in Threads |-> 0]

\* save_face_and_embedding(student_id, view_type, face, embedding, max_samples)
SaveEffect(slot, emb) ==
    LET file == fs[EMB_DIR][slot]
        branch == SaveBranch(file, emb)
    IN  /\ fs' = [fs EXCEPT ![EMB_DIR][slot] =
                      NpyFile(SavedRows(file, emb, max_samples), clock)]
        /\ hist' = [hist EXCEPT ![slot] =
                      IF branch = "first" THEN [seq |-> << emb >>, ok |-> TRUE]
                      ELSE [seq |-> Append(@.seq, emb),
                            ok |-> @.ok /\ branch = "append"]]
        \* no statement of the function is left to raise: the load, the stack
        \* and the first np.save are inside the try
        /\ lastSave' = [slot |-> slot, emb |-> emb, some |-> TRUE,
                        pre |-> [kind |-> file.kind, rows |-> file.rows],
                        raised |-> FALSE]
        \* cv2.imwrite of <view>_<ts>.jpg, ts in milliseconds: one more face file
        \* (saves to one slot are taken to fall into different milliseconds)
        /\ faces' = [faces EXCEPT ![slot[1]] = @ + 1]
        /\ delRet' = NoDelRet
        /\ used' = [used EXCEPT !.saves = @ + 1]
        /\ WriteResets

\* One call of save_face_and_embedding by a caller that does nothing else
Save(slot, emb) ==
    /\ SaveEffect(slot, emb)
    /\ UNCHANGED << clock, max_samples, cache, nextId, pc, root, latest,
                    items, ret, pureVars >>

\* The environment leaves an unreadable, empty or malformed <view>.npy at the
\* slot's path
Corrupt(slot, bad) ==
    /\ fs' = [fs EXCEPT ![EMB_DIR][slot] = BadFile(bad, clock)]
    /\ hist' = [hist EXCEPT ![slot] = [seq |-> @.seq, ok |-> FALSE]]
    /\ lastSave' = NoSave
    /\ delRet' = NoDelRet
    /\ UNCHANGED faces
    /\ used' = [used EXCEPT !.env = @ + 1]
    /\ WriteResets
    /\ UNCHANGED << clock, max_samples, cache, nextId, pc, root, latest,
                    items, ret, pureVars >>

\* os.walk(emb_dir): the number of files in the student's embeddings directory
EmbFiles(dir, sid) == Cardinality({ sl \in Slots : sl[1] = sid /\ dir[sl].kind # "absent" })

\* A faulty variant of FacesAfterDelete: the faces directory is left in place
FacesKept(f, sid) == f

\* shutil.rmtree(face_dir, ignore_errors=True)
FacesAfterDelete(f, sid) == [f EXCEPT ![sid] = 0]

\* delete_student_face_data(student_id): count the files of both directories of
\* the student, remove the directories, return the counts
Delete(sid) ==
    /\ fs' = [fs EXCEPT ![EMB_DIR] =
                 [sl \in Slots |-> IF sl[1] = sid THEN Absent ELSE @[sl]]]
    /\ faces' = FacesAfterDelete(faces, sid)
    /\ delRet' = [some |-> TRUE, sid |-> sid,
                  embeddings_deleted |-> EmbFiles(fs[EMB_DIR], sid),
                  faces_deleted |-> faces[sid],
                  repeat |-> delRet.some /\ delRet.sid = sid,
                  before |-> IF delRet.some /\ delRet.sid = sid
                             THEN delRet.embeddings_deleted + delRet.faces_deleted
                             ELSE 0]
    /\ hist' = [sl \in Slots |-> IF sl[1] = sid THEN NoHist ELSE hist[sl]]
    /\ lastSave' = NoSave
    /\ used' = [used EXCEPT !.deletes = @ + 1]
    /\ WriteResets
    /\ UNCHANGED << clock, max_samples, cache, nextId, pc, root, latest,
                    items, ret, pureVars >>

\* The filesystem clock moves to the next modification-time tick.  Only the
\* order of the modification times is observable, so the tick is taken only
\* once a file, a cache entry or a call in flight carries the current one.
Tick ==
    /\ clock < MaxClock
    /\ \/ \E sl \in Slots : fs[EMB_DIR][sl].kind # "absent" /\ fs[EMB_DIR][sl].mtime = clock
       \/ \E r \in Roots : cache[r].present /\ cache[r].mtime = clock
       \/ \E t \in Threads : latest[t] = clock
    /\ clock' = clock + 1
    /\ UNCHANGED << fs, faces, delRet, max_samples, hist, lastSave, cacheVars,
                    used, pureVars >>

-----------------------------------------------------------------------------
(* Gallery cache: utils/recognition.py                                     *)

GNone == [none |-> TRUE, rows |-> << >>]
GMat(rows) == [none |-> FALSE, rows |-> rows]

NoCacheEntry == [present |-> FALSE, mtime |-> 0, G |-> GNone, meta |-> << >>,
                 id |-> 0, src |-> << >>]
NoRet == [G |-> GNone, meta |-> << >>, id |-> 0, src |-> << >>]

Max(a, b) == IF a > b THEN a ELSE b

RECURSIVE LatestFrom(_, _)
LatestFrom(dir, i) ==
    IF i = 0 THEN 0
    ELSE LET f == dir[SlotOrder[i]]
             rest == LatestFrom(dir, i - 1)
         IN  IF f.kind = "absent" THEN rest
             ELSE IF f.mtime > rest THEN f.mtime ELSE rest

\* _latest_embedding_mtime(emb_root): the largest getmtime over the .npy files
latest_embedding_mtime(dir) == LatestFrom(dir, Len(SlotOrder))

RECURSIVE LoadFrom(_, _)
LoadFrom(dir, i) ==
    IF i = 0 THEN << >>
    ELSE LET f == dir[SlotOrder[i]]
             rest == LoadFrom(dir, i - 1)
         IN  IF f.kind = "npy" /\ Len(f.rows) > 0
             THEN Append(rest, [sid |-> SlotOrder[i][1], view |-> SlotOrder[i][2],
                                mat |-> f.rows, ndim |-> 2])
             ELSE IF f.kind = "scalar"       \* size 1, ndim 0: appended as it is
             THEN Append(rest, [sid |-> SlotOrder[i][1], view |-> SlotOrder[i][2],
                                mat |-> << >>, ndim |-> 0])
             ELSE rest                       \* absent, unreadable or empty: skipped

\* load_all_embeddings(emb_root)
load_all_embeddings(dir) == LoadFrom(dir, Len(SlotOrder))

RECURSIVE RowsOfMat(_, _)
RowsOfMat(mat, k) ==
    IF k = 0 THEN << >> ELSE Append(RowsOfMat(mat, k - 1), L2Normalize(mat[k]))

RECURSIVE MetaOfMat(_, _)
MetaOfMat(item, k) ==
    IF k = 0 THEN << >>
    ELSE Append(MetaOfMat(item, k - 1), << item.sid, item.view >>)

\* A faulty variant of MetaOfItem: one metadata entry per slot instead of one per row
MetaOfItemPerSlot(item) == << << item.sid, item.view >> >>

\* meta.append((sid, view)) for every row of one item
MetaOfItem(item) == MetaOfMat(item, Len(item.mat))

RECURSIVE GalleryRows(_, _)
GalleryRows(its, i) ==
    IF i = 0 THEN << >>
    ELSE GalleryRows(its, i - 1) \o RowsOfMat(its[i].mat, Len(its[i].mat))

RECURSIVE GalleryMeta(_, _)
GalleryMeta(its, i) ==
    IF i = 0 THEN << >> ELSE GalleryMeta(its, i - 1) \o MetaOfItem(its[i])

\* np.vstack(rows) raises unless all rows have one width
RaggedRows(rows) == \E i, j \in DOMAIN rows : Len(rows[i]) # Len(rows[j])

\* `mat.shape[0]` raises IndexError on a 0-d array
ShapeRaises(its) == \E i \in DOMAIN its : its[i].ndim = 0

\* build_gallery(db_items)
build_gallery(its) ==
    LET rows == GalleryRows(its, Len(its))
        meta == GalleryMeta(its, Len(its))
    IN  IF ShapeRaises(its) THEN [raised |-> TRUE, G |-> GNone, meta |-> << >>]
        ELSE IF rows = << >> THEN [raised |-> FALSE, G |-> GNone, meta |-> << >>]
        ELSE IF RaggedRows(rows) THEN [raised |-> TRUE, G |-> GNone, meta |-> << >>]
        ELSE [raised |-> FALSE, G |-> GMat(rows), meta |-> meta]

\* A faulty variant of CacheHit: an entry holding an empty gallery counts as absent
CacheHitNonEmpty(cached, lat) ==
    cached.present /\ ~cached.G.none /\ cached.mtime = lat

\* `cached and cached["mtime"] == latest`
CacheHit(cached, lat) == cached.present /\ cached.mtime = lat

\* A faulty variant of CacheKey: every root shares one entry
CacheKeyShared(r) == EMB_DIR

\* the key of `_GALLERY_CACHE.get(emb_root)` and `_GALLERY_CACHE[emb_root] = ...`
CacheKey(r) == r

\* load_gallery_cached, line 93: latest = _latest_embedding_mtime(emb_root)
CallStart(t, r) ==
    /\ pc[t] \in {"idle", "done", "raised"}      \* no call of t is in flight
    /\ pc' = [pc EXCEPT ![t] = "check"]
    /\ root' = [root EXCEPT ![t] = r]
    /\ latest' = [latest EXCEPT ![t] = latest_embedding_mtime(fs[r])]
    /\ fresh' = [fresh EXCEPT ![t] = TRUE]
    /\ expect' = [expect EXCEPT ![t] = stable[r]]
    /\ used' = [used EXCEPT !.calls = @ + 1]
    /\ items' = [items EXCEPT ![t] = << >>]
    /\ ret' = [ret EXCEPT ![t] = NoRet]
    /\ UNCHANGED << storeVars, cache, nextId, stable, pureVars >>

\* load_gallery_cached, lines 94-96: the lookup and the return of a cached entry
Check(t) ==
    /\ pc[t] = "check"
    /\ LET cached == cache[CacheKey(root[t])]
       IN  IF CacheHit(cached, latest[t])
           THEN /\ pc' = [pc EXCEPT ![t] = "done"]
                /\ ret' = [ret EXCEPT ![t] = [G |-> cached.G, meta |-> cached.meta,
                                              id |-> cached.id, src |-> cached.src]]
                /\ stable' = IF fresh[t]
                             THEN [stable EXCEPT ![root[t]] = cached.id]
                             ELSE stable
           ELSE /\ pc' = [pc EXCEPT ![t] = "load"]
                /\ UNCHANGED << ret, stable >>
    /\ UNCHANGED << storeVars, cache, nextId, root, latest, items, fresh,
                    expect, used, pureVars >>

\* load_gallery_cached, line 98: items = load_all_embeddings(emb_root)
Load(t) ==
    /\ pc[t] = "load"
    /\ pc' = [pc EXCEPT ![t] = "build"]
    /\ items' = [items EXCEPT ![t] = load_all_embeddings(fs[root[t]])]
    /\ UNCHANGED << storeVars, cache, nextId, root, latest, ret, fresh,
                    stable, expect, used, pureVars >>

\* load_gallery_cached, lines 99-101: build, store the entry, return it
Build(t) ==
    /\ pc[t] = "build"
    /\ LET b == build_gallery(items[t])
           r == root[t]
       IN  IF b.raised
           THEN /\ pc' = [pc EXCEPT ![t] = "raised"]
                /\ UNCHANGED << cache, nextId, ret, stable, expect >>
           ELSE /\ pc' = [pc EXCEPT ![t] = "done"]
                /\ cache' = [cache EXCEPT ![CacheKey(r)] =
                                [present |-> TRUE, mtime |-> latest[t], G |-> b.G,
                                 meta |-> b.meta, id |-> nextId, src |-> items[t]]]
                /\ nextId' = nextId + 1
                /\ ret' = [ret EXCEPT ![t] = [G |-> b.G, meta |-> b.meta,
                                              id |-> nextId, src |-> items[t]]]
                /\ stable' = [stable EXCEPT ![r] = IF fresh[t] THEN nextId ELSE 0]
                /\ expect' = [u \in Threads |->
                                 IF u # t /\ root[u] = r /\ ~fresh[t]
                                 THEN 0 ELSE expect[u]]
    /\ UNCHANGED << storeVars, root, latest, items, fresh, used, pureVars >>

-----------------------------------------------------------------------------
(* Matcher: utils/recognition.py, live/recognizer.py                       *)

MinusOne == 0 - Unit * Unit       \* the similarity -1.0

\* G @ q raises unless the query has the width of the rows
MatmulRaises(G, q) == Len(G.rows) > 0 /\ Len(G.rows[1]) # Len(q)

\* sims = G @ q
Sims(G, q) == [i \in DOMAIN G.rows |-> Dot(G.rows[i], q)]

\* A faulty variant of ArgMaxFrom: a later row of equal similarity replaces the best
RECURSIVE ArgMaxLastFrom(_, _, _)
ArgMaxLastFrom(sims, i, best) ==
    IF i > Len(sims) THEN best
    ELSE ArgMaxLastFrom(sims, i + 1, IF sims[i] >= sims[best] THEN i ELSE best)

\* np.argmax: a scan that keeps the first index of the largest value
RECURSIVE ArgMaxFrom(_, _, _)
ArgMaxFrom(sims, i, best) ==
    IF i > Len(sims) THEN best
    ELSE ArgMaxFrom(sims, i + 1, IF sims[i] > sims[best] THEN i ELSE best)

\* best_match_vectorized(query_vec, G, meta)
best_match_vectorized(q0, G, meta) ==
    IF G.none \/ Len(G.rows) = 0
    THEN [raised |-> FALSE, sid |-> "", view |-> "", sim |-> MinusOne]
    ELSE LET q == L2Normalize(q0)
         IN  IF MatmulRaises(G, q)
             THEN [raised |-> TRUE, sid |-> "", view |-> "", sim |-> 0]
             ELSE LET sims == Sims(G, q)
                      idx == ArgMaxFrom(sims, 2, 1)
                  IN  [raised |-> FALSE, sid |-> meta[idx][1], view |-> meta[idx][2],
                       sim |-> sims[idx]]

\* `max(1, min(int(k), sims.size))`
ClampK(k, n) == IF k > n THEN (IF n < 1 THEN 1 ELSE n) ELSE (IF k < 1 THEN 1 ELSE k)

\* A faulty variant of Outranks: the similarities are ranked without the negation
OutranksAscending(x, y) == x <= y

\* the order np.argpartition and np.argsort put on -sims: larger similarity first
Outranks(x, y) == x >= y

\* idxs after np.argpartition(-sims, k - 1)[:k] and np.argsort(-sims[idxs]): n row
\* indices outside `taken`, best first.  Which of several rows of equal
\* similarity is taken, and in which order, is left to numpy's selection and
\* sort: every such outcome is in the set.
RECURSIVE TopIndices(_, _, _)
TopIndices(sims, taken, n) ==
    IF n = 0 THEN { << >> }
    ELSE LET rest == DOMAIN sims \ taken
             best == { i \in rest : \A j \in rest : Outranks(sims[i], sims[j]) }
         IN  UNION { { << i >> \o tail : tail \in TopIndices(sims, taken \cup {i}, n - 1) } :
                     i \in best }

\* top_k_matches(query_vec, G, meta, k): the set of lists it can return, each
\* entry (student_id, view_type, similarity); `row` records the gallery row
TopKRaised == [raised |-> TRUE, out |-> << >>]
top_k_matches(q0, G, meta, k) ==
    IF G.none \/ Len(G.rows) = 0 THEN { [raised |-> FALSE, out |-> << >>] }
    ELSE LET q == L2Normalize(q0)
         IN  IF MatmulRaises(G, q) THEN { TopKRaised }
             ELSE LET sims == Sims(G, q)
                      kk == ClampK(k, Len(sims))
                  IN  { [raised |-> FALSE,
                         out |-> [n \in DOMAIN idxs |->
                                    [sid |-> meta[idxs[n]][1], view |-> meta[idxs[n]][2],
                                     sim |-> sims[idxs[n]], row |-> idxs[n]]]] :
                        idxs \in TopIndices(sims, {}, kk) }

\* A faulty variant of Accepts: a strict comparison
AcceptsStrict(sim, threshold) == sim > threshold

\* `sim >= self.threshold`
Accepts(sim, threshold) == sim >= threshold

\* FaceRecognizer.recognize_embedding(embedding); the identity None is "None"
recognize_embedding(G, meta, embedding, threshold) ==
    IF G.none \/ Len(meta) = 0
    THEN [raised |-> FALSE, sid |-> "None", sim |-> MinusOne]
    ELSE LET m == best_match_vectorized(L2Normalize(embedding), G, meta)
         IN  IF m.raised THEN [raised |-> TRUE, sid |-> "None", sim |-> 0]
             ELSE IF Accepts(m.sim, threshold)
                  THEN [raised |-> FALSE, sid |-> m.sid, sim |-> m.sim]
                  ELSE [raised |-> FALSE, sid |-> "None", sim |-> m.sim]

-----------------------------------------------------------------------------
(* Liveness evaluator: utils/liveness.py                                   *)

ScoreOne == 3000                  \* the sub-score 1.0 in fixed point
LIVENESS_MIN_FACE_RATIO == 3      \* 0.03, in hundredths
LIVENESS_MIN_EYE_DIST_RATIO == 25 \* 0.25, in hundredths
LIVENESS_MIN_SCORE == 67          \* 0.67, in hundredths
BLUR_THRESHOLD == 80              \* 80.0
Pad == 12                         \* crop_face_xyxy(..., pad=12)

Min(a, b) == IF a < b THEN a ELSE b

\* min(1.0, num / den) in fixed point, for num >= 0 and den > 0
CappedRatio(num, den) == IF num >= den THEN ScoreOne ELSE (num * ScoreOne) \div den

\* _dist(a, b)
Dist(a, b) ==
    ISqrtFrom((a[1] - b[1]) * (a[1] - b[1]) + (a[2] - b[2]) * (a[2] - b[2]), 0)

\* crop_face_xyxy(image, bbox): the rectangle <<x1, y1, x2, y2>> it slices
crop_face_xyxy(w_img, h_img, box, pad) ==
    << Max(0, box[1] - pad), Max(0, box[2] - pad),
       Min(w_img, box[3] + pad), Min(h_img, box[4] + pad) >>

\* An empty slice: cv2.cvtColor in blur_score raises on it
EmptyCrop(c) == c[3] <= c[1] \/ c[4] <= c[2]

\* A faulty variant of NoLandmarks: a single landmark point is let through
NoLandmarksOffByOne(lm) == lm.none \/ Len(lm.pts) < 1

\* `landmarks is None or len(landmarks) < 2`
NoLandmarks(lm) == lm.none \/ Len(lm.pts) < 2

Verdict(raised, checked, score, pass, reason) ==
    [some |-> TRUE, raised |-> raised, checked |-> checked, score |-> score,
     pass |-> pass, reason |-> reason]

NoVerdict == [some |-> FALSE, raised |-> FALSE, checked |-> FALSE, score |-> 0,
              pass |-> FALSE, reason |-> ""]

\* face_ratio_score, eye_ratio_score and blur_score_norm of a call with two
\* landmark points or more; in.blur is the Laplacian variance cv2 computes on
\* the crop
SubScores(in) ==
    LET x1 == in.bbox[1]
        y1 == in.bbox[2]
        x2 == in.bbox[3]
        y2 == in.bbox[4]
        face_area == Max(0, x2 - x1) * Max(0, y2 - y1)
        img_area == Max(1, in.w * in.h)
        eye_dist == Dist(in.lm.pts[1], in.lm.pts[2])
        bbox_w == Max(1, x2 - x1)
    IN  << CappedRatio(face_area * 100, LIVENESS_MIN_FACE_RATIO * img_area),
           CappedRatio(eye_dist * 100, LIVENESS_MIN_EYE_DIST_RATIO * bbox_w),
           CappedRatio(in.blur, BLUR_THRESHOLD) >>

\* A faulty variant of MeanOf3: the division is left out
SumOf3(s) == s[1] + s[2] + s[3]

\* `(face_ratio_score + eye_ratio_score + blur_score_norm) / 3.0`
MeanOf3(s) == (s[1] + s[2] + s[3]) \div 3

\* evaluate_liveness(image_bgr, bbox_xyxy, landmarks)
evaluate_liveness(in) ==
    IF NoLandmarks(in.lm)
    THEN Verdict(FALSE, FALSE, 0, FALSE, "no_landmarks")
    ELSE IF Len(in.lm.pts) < 2                   \* landmarks[1]: IndexError
    THEN Verdict(TRUE, FALSE, 0, FALSE, "")
    ELSE
    LET face == crop_face_xyxy(in.w, in.h, in.bbox, Pad)
        score == MeanOf3(SubScores(in))
    IN  IF EmptyCrop(face) THEN Verdict(TRUE, FALSE, 0, FALSE, "")
        ELSE Verdict(FALSE, TRUE, score, score * 100 >= LIVENESS_MIN_SCORE * ScoreOne, "")

\* One call of evaluate_liveness on the inputs under test
Evaluate ==
    /\ ~lvOut.some
    /\ lvOut' = evaluate_liveness(lvIn)
    /\ UNCHANGED << storeVars, cacheVars, used, mIn, mOut, lvIn, restVars >>

-----------------------------------------------------------------------------
(* Head-turn challenge: utils/liveness.py                                  *)
(* A nose ratio is the exact fraction num/den; the comparisons with        *)
(* 0.5 -/+ shift are made on hundredths by cross-multiplication.           *)

LIVENESS_CHALLENGE_SHIFT == 8     \* 0.08, in hundredths

Abs(x) == IF x < 0 THEN 0 - x ELSE x

NoRatio == [none |-> TRUE, num |-> 0, den |-> 1]

\* _nose_ratio(bbox_xyxy, landmarks)
nose_ratio(bbox, lm) ==
    IF lm.none \/ Len(lm.pts) < 3 THEN NoRatio
    ELSE [none |-> FALSE, num |-> lm.pts[3][1] - bbox[1],
          den |-> Max(1, bbox[3] - bbox[1])]

\* the loop that collects the ratios of the frames that have one
RECURSIVE RatiosFrom(_, _)
RatiosFrom(frames, i) ==
    IF i = 0 THEN << >>
    ELSE LET r == nose_ratio(frames[i].bbox, frames[i].lm)
         IN  IF r.none THEN RatiosFrom(frames, i - 1)
             ELSE Append(RatiosFrom(frames, i - 1), r)

\* A faulty variant of TooFewRatios: one usable ratio is let through
TooFewRatiosOffByOne(ratios) == Len(ratios) < 1

\* `len(ratios) < 2`
TooFewRatios(ratios) == Len(ratios) < 2

\* `r <= 0.5 - Config.LIVENESS_CHALLENGE_SHIFT`
IsLeft(r) == r.num * 100 <= (50 - LIVENESS_CHALLENGE_SHIFT) * r.den

\* A faulty variant of IsRight: a strict comparison
IsRightStrict(r) == r.num * 100 > (50 + LIVENESS_CHALLENGE_SHIFT) * r.den

\* `r >= 0.5 + Config.LIVENESS_CHALLENGE_SHIFT`
IsRight(r) == r.num * 100 >= (50 + LIVENESS_CHALLENGE_SHIFT) * r.den

\* `abs(r - 0.5) <= Config.LIVENESS_CHALLENGE_SHIFT`
IsCenter(r) == Abs(r.num * 100 - 50 * r.den) <= LIVENESS_CHALLENGE_SHIFT * r.den

ChallengeVerdict(ok, pass, reason, ratios, left, right, center) ==
    [some |-> TRUE, ok |-> ok, pass |-> pass, reason |-> reason, ratios |-> ratios,
     left |-> left, right |-> right, center |-> center]

NoChallengeVerdict ==
    [some |-> FALSE, ok |-> FALSE, pass |-> FALSE, reason |-> "", ratios |-> << >>,
     left |-> FALSE, right |-> FALSE, center |-> FALSE]

\* evaluate_liveness_challenge(frames, challenge)
evaluate_liveness_challenge(frames, challenge) ==
    IF frames = << >>
    THEN ChallengeVerdict(FALSE, FALSE, "no_frames", << >>, FALSE, FALSE, FALSE)
    ELSE
    LET ratios == RatiosFrom(frames, Len(frames))
        left == \E i \in DOMAIN ratios : IsLeft(ratios[i])
        right == \E i \in DOMAIN ratios : IsRight(ratios[i])
        center == \E i \in DOMAIN ratios : IsCenter(ratios[i])
    IN  IF TooFewRatios(ratios)
        THEN ChallengeVerdict(FALSE, FALSE, "no_landmarks", << >>, FALSE, FALSE, FALSE)
        ELSE IF challenge = "turn_left"
        THEN ChallengeVerdict(TRUE, left /\ center, "", ratios, left, right, center)
        ELSE IF challenge = "turn_right"
        THEN ChallengeVerdict(TRUE, right /\ center, "", ratios, left, right, center)
        ELSE IF challenge = "left_right"
        THEN ChallengeVerdict(TRUE, left /\ right /\ center, "", ratios, left, right, center)
        ELSE ChallengeVerdict(FALSE, FALSE, "invalid_challenge", << >>, FALSE, FALSE, FALSE)

\* One call of evaluate_liveness_challenge on the inputs under test
EvaluateChallenge ==
    /\ ~chOut.some
    /\ chOut' = evaluate_liveness_challenge(chIn.frames, chIn.challenge)
    /\ UNCHANGED << storeVars, cacheVars, used, mIn, mOut, lvIn, lvOut, chIn, topkVars, scanVars,
                    engineVars, extraVars >>

-----------------------------------------------------------------------------
(* Class-photo scan: routes/attendance.py                                  *)

OPENCV_DET_THRESH == 60           \* 0.6, in hundredths

\* The methods class FaceRecognizer defines
FaceRecognizerMethods == { "__init__", "reload", "recognize_embedding", "recognize" }

\* `recognizer.top_k(emb, k=debug_top_k)`: the attribute lookup raises
\* AttributeError unless the class defines the method
TopKLookupRaises == "top_k" \notin FaceRecognizerMethods

FaceOutcome(raised, reason, sid) == [raised |-> raised, reason |-> reason, sid |-> sid]

\* A faulty variant of LowDetScore: the detection score is not tested
LowDetScoreNever(det) == FALSE

\* `det_score < Config.OPENCV_DET_THRESH`
LowDetScore(det) == det < OPENCV_DET_THRESH

\* The body of the loop over the detected faces, for one face
scan_face(in, face, debug) ==
    IF LowDetScore(face.det) THEN FaceOutcome(FALSE, "low_det_score", "None")
    ELSE IF EmptyCrop(crop_face_xyxy(in.w, in.h, face.bbox, Pad))
    THEN FaceOutcome(TRUE, "", "None")                     \* blur_score raises
    ELSE IF face.blur < in.blur_threshold THEN FaceOutcome(FALSE, "blur", "None")
    ELSE
    LET liveness ==
            IF in.liveness_enabled
            THEN evaluate_liveness([w |-> in.w, h |-> in.h, bbox |-> face.bbox,
                                    lm |-> face.lm, blur |-> face.blur])
            ELSE Verdict(FALSE, FALSE, 0, FALSE, "")
        rec == recognize_embedding(in.G, in.meta, face.emb, in.threshold)
    IN  IF liveness.raised THEN FaceOutcome(TRUE, "", "None")
        ELSE IF in.liveness_enabled /\ ~liveness.checked /\ in.liveness_required
        THEN FaceOutcome(FALSE, "liveness_unavailable", "None")
        ELSE IF in.liveness_enabled /\ liveness.checked /\ ~liveness.pass
        THEN FaceOutcome(FALSE, "liveness_failed", "None")
        ELSE IF rec.raised THEN FaceOutcome(TRUE, "", "None")
        \* every branch below builds its debug entry with recognizer.top_k
        ELSE IF debug /\ TopKLookupRaises THEN FaceOutcome(TRUE, "", "None")
        ELSE IF rec.sid = "None" THEN FaceOutcome(FALSE, "below_threshold", "None")
        ELSE IF rec.sid \notin in.enrolled THEN FaceOutcome(FALSE, "not_enrolled", rec.sid)
        ELSE IF rec.sid \in in.marked THEN FaceOutcome(FALSE, "cooldown", rec.sid)
        ELSE FaceOutcome(FALSE, "matched", rec.sid)

ScanResponse(status, ids, reasons) ==
    [some |-> TRUE, status |-> status, ids |-> ids, reasons |-> reasons]

NoScan == [some |-> FALSE, status |-> 0, ids |-> {}, reasons |-> << >>]

\* The loop over the first n detected faces: matched_ids, and what became of
\* each face; an exception ends the request with the status 500
RECURSIVE ScanFaces(_, _, _)
ScanFaces(in, debug, n) ==
    IF n = 0 THEN ScanResponse(200, {}, << >>)
    ELSE LET prev == ScanFaces(in, debug, n - 1)
             o == scan_face(in, in.faces[n], debug)
         IN  IF prev.status # 200 THEN prev
             ELSE IF o.raised THEN ScanResponse(500, {}, << >>)
             ELSE ScanResponse(200,
                               IF o.reason = "matched" THEN prev.ids \cup {o.sid}
                               ELSE prev.ids,
                               Append(prev.reasons, o.reason))

\* scan_image, from the construction of the recognizer on: student_ids and the
\* HTTP status of the response
scan_image(in, debug) == ScanFaces(in, debug, Len(in.faces))

\* One scan-image request on the inputs under test
Scan(debug) ==
    /\ ~scOut[debug].some
    /\ scOut' = [scOut EXCEPT ![debug] = scan_image(scIn, debug)]
    /\ UNCHANGED << storeVars, cacheVars, used, mIn, mOut, lvIn, lvOut,
                    challengeVars, topkVars, scIn, bmOut, engineVars, extraVars >>

\* benchmark: the body of its loop over the detected faces, for one face
benchmark_face(in, face, debug) ==
    IF LowDetScore(face.det) THEN FaceOutcome(FALSE, "low_det_score", "None")
    ELSE IF EmptyCrop(crop_face_xyxy(in.w, in.h, face.bbox, Pad))
    THEN FaceOutcome(TRUE, "", "None")                     \* blur_score raises
    ELSE IF face.blur < in.blur_threshold THEN FaceOutcome(FALSE, "blur", "None")
    ELSE
    LET liveness ==
            IF in.liveness_enabled
            THEN evaluate_liveness([w |-> in.w, h |-> in.h, bbox |-> face.bbox,
                                    lm |-> face.lm, blur |-> face.blur])
            ELSE Verdict(FALSE, FALSE, 0, FALSE, "")
        rec == recognize_embedding(in.G, in.meta, face.emb, in.threshold)
    IN  IF liveness.raised THEN FaceOutcome(TRUE, "", "None")
        ELSE IF in.liveness_enabled /\ ~liveness.checked /\ in.liveness_required
        THEN FaceOutcome(FALSE, "liveness_unavailable", "None")
        ELSE IF in.liveness_enabled /\ liveness.checked /\ ~liveness.pass
        THEN FaceOutcome(FALSE, "liveness_failed", "None")
        ELSE IF rec.raised THEN FaceOutcome(TRUE, "", "None")
        ELSE IF debug /\ TopKLookupRaises THEN FaceOutcome(TRUE, "", "None")
        ELSE IF rec.sid = "None" THEN FaceOutcome(FALSE, "below_threshold", "None")
        ELSE IF in.course_given /\ rec.sid \notin in.enrolled
        THEN FaceOutcome(FALSE, "not_enrolled", rec.sid)
        ELSE FaceOutcome(FALSE, "matched", rec.sid)

RECURSIVE BenchmarkFaces(_, _, _)
BenchmarkFaces(in, debug, n) ==
    IF n = 0 THEN ScanResponse(200, {}, << >>)
    ELSE LET prev == BenchmarkFaces(in, debug, n - 1)
             o == benchmark_face(in, in.faces[n], debug)
         IN  IF prev.status # 200 THEN prev
             ELSE IF o.raised THEN ScanResponse(500, {}, << >>)
             ELSE ScanResponse(200,
                               IF o.reason = "matched" THEN prev.ids \cup {o.sid}
                               ELSE prev.ids,
                               Append(prev.reasons, o.reason))

\* benchmark, from the construction of the recognizer on: the matched ids and
\* the HTTP status of the response
benchmark(in, debug) == BenchmarkFaces(in, debug, Len(in.faces))

\* One benchmark request on the inputs under test
Benchmark(debug) ==
    /\ ~bmOut[debug].some
    /\ bmOut' = [bmOut EXCEPT ![debug] = benchmark(scIn, debug)]
    /\ UNCHANGED << storeVars, cacheVars, used, mIn, mOut, lvIn, lvOut,
                    challengeVars, topkVars, scIn, scOut, engineVars, extraVars >>

-----------------------------------------------------------------------------
(* Feature-extraction engine: utils/face_engine.py                         *)
(* A thread can be preempted between any two statements of get_engine.     *)

NoEngineRet == 0 - 1              \* no call of the thread has returned yet

\* _check_sface_available(): cv2 has both classes and both model files exist
check_sface_available == models

\* A faulty variant of EngineUnset: the test under the lock is left out
EngineUnsetUnchecked(e) == TRUE

\* `_engine is None`, under the lock
EngineUnset(e) == e = 0

\* get_engine, line 52: `if not _check_sface_available(): return None`
GetEngineStart(t) ==
    /\ epc[t] \in {"idle", "done"}
    /\ IF check_sface_available
       THEN epc' = [epc EXCEPT ![t] = "fast"] /\ UNCHANGED eret
       ELSE epc' = [epc EXCEPT ![t] = "done"] /\ eret' = [eret EXCEPT ![t] = 0]
    /\ used' = [used EXCEPT !.engine_calls = @ + 1]
    /\ UNCHANGED << storeVars, cacheVars, mIn, mOut, lvIn, lvOut, challengeVars,
                    topkVars, scanVars, engine, lock, models, inits,
                    extraVars >>

\* get_engine, lines 54-55: `if _engine is not None: return _engine`
GetEngineFast(t) ==
    /\ epc[t] = "fast"
    /\ IF engine # 0
       THEN epc' = [epc EXCEPT ![t] = "done"] /\ eret' = [eret EXCEPT ![t] = engine]
       ELSE epc' = [epc EXCEPT ![t] = "acquire"] /\ UNCHANGED eret
    /\ UNCHANGED << storeVars, cacheVars, used, mIn, mOut, lvIn, lvOut, challengeVars,
                    topkVars, scanVars, engine, lock, models, inits,
                    extraVars >>

\* get_engine, line 56: `with _lock:` waits until the lock is free
GetEngineAcquire(t) ==
    /\ epc[t] = "acquire"
    /\ lock = "free"
    /\ lock' = t
    /\ epc' = [epc EXCEPT ![t] = "inner"]
    /\ UNCHANGED << storeVars, cacheVars, used, mIn, mOut, lvIn, lvOut, challengeVars,
                    topkVars, scanVars, engine, models, eret, inits,
                    extraVars >>

\* get_engine, lines 57-58: `if _engine is None: _engine = _init_engine()`
GetEngineInit(t) ==
    /\ epc[t] = "inner"
    /\ IF EngineUnset(engine)
       THEN engine' = inits + 1 /\ inits' = inits + 1
       ELSE UNCHANGED << engine, inits >>
    /\ epc' = [epc EXCEPT ![t] = "release"]
    /\ UNCHANGED << storeVars, cacheVars, used, mIn, mOut, lvIn, lvOut, challengeVars,
                    topkVars, scanVars, lock, models, eret,
                    extraVars >>

\* get_engine, the end of the with block: the lock is released
GetEngineRelease(t) ==
    /\ epc[t] = "release"
    /\ lock' = "free"
    /\ epc' = [epc EXCEPT ![t] = "return"]
    /\ UNCHANGED << storeVars, cacheVars, used, mIn, mOut, lvIn, lvOut, challengeVars,
                    topkVars, scanVars, engine, models, eret, inits,
                    extraVars >>

\* get_engine, line 59: `return _engine`
GetEngineReturn(t) ==
    /\ epc[t] = "return"
    /\ eret' = [eret EXCEPT ![t] = engine]
    /\ epc' = [epc EXCEPT ![t] = "done"]
    /\ UNCHANGED << storeVars, cacheVars, used, mIn, mOut, lvIn, lvOut, challengeVars,
                    topkVars, scanVars, engine, lock, models, inits,
                    extraVars >>

\* The model files are put in place or removed while the process runs
ModelsChange ==
    /\ models' = ~models
    /\ used' = [used EXCEPT !.model_changes = @ + 1]
    /\ UNCHANGED << storeVars, cacheVars, mIn, mOut, lvIn, lvOut, challengeVars,
                    topkVars, scanVars, engine, lock, epc, eret, inits,
                    extraVars >>

-----------------------------------------------------------------------------
(* Feature extraction: utils/face_engine.py, utils/embeddings.py           *)
(* Widths are scaled down: the SFace feature has 128 components and the     *)
(* fallback embedding 64 * 64; the model keeps them different.              *)

SFaceDim == 2                     \* components of recognizer.feature(aligned)
FallbackSize == 3                 \* compute_embedding's `size`

\* The faces a photo can show: the two students and a stranger
Persons == Students \cup { "x" }

\* the two leading components of a person's feature or pixel vector
Lead(who) == IF who = "s1" THEN <<10, 0>> ELSE IF who = "s2" THEN <<0, 10>> ELSE <<6, 8>>

\* cv2.resize(gray, (size, size)).astype(np.float32).reshape(-1)
ResizedGray(who, size) == [k \in 1..(size * size) |-> IF k <= 2 THEN Lead(who)[k] ELSE 0]

\* compute_embedding(face_bgr, size)
compute_embedding(who, size) == L2Normalize(ResizedGray(who, size))

\* recognizer.feature(aligned).flatten()
SFaceFeature(who) == [k \in 1..SFaceDim |-> IF k <= 2 THEN Lead(who)[k] ELSE 0]

\* get_engine() of a request no other thread interleaves with: [ret, engine, inits]
get_engine(available, e, n) ==
    IF ~available THEN [ret |-> 0, engine |-> e, inits |-> n]
    ELSE IF e # 0 THEN [ret |-> e, engine |-> e, inits |-> n]
    ELSE [ret |-> n + 1, engine |-> n + 1, inits |-> n + 1]

\* One entry of faces: the fallback reports the score 1.0 and no landmarks
FallbackFace(f) ==
    [det |-> 100, bbox |-> f.bbox, lm |-> [none |-> TRUE, pts |-> << >>], blur |-> f.blur,
     emb |-> compute_embedding(f.who, FallbackSize)]

SFaceFace(f) ==
    [det |-> f.det, bbox |-> f.bbox, lm |-> f.lm, blur |-> f.blur, emb |-> SFaceFeature(f.who)]

\* extract_all_embeddings_with_landmarks(image_bgr), given what get_engine returned
extract_all_embeddings_with_landmarks(eng, img) ==
    IF eng = 0
    THEN [i \in DOMAIN img.faces |-> FallbackFace(img.faces[i])]
    ELSE [i \in DOMAIN img.faces |-> SFaceFace(img.faces[i])]

\* One scan-image request: extraction, then the loop over the faces
ExtractAndScan ==
    /\ ~xOut.some
    /\ LET g == get_engine(check_sface_available, engine, inits)
           found == extract_all_embeddings_with_landmarks(g.ret, xIn.img)
           resp == scan_image([xIn.req EXCEPT !.faces = found], FALSE)
       IN  /\ engine' = g.engine
           /\ inits' = g.inits
           /\ xOut' = [some |-> TRUE, engine |-> g.ret, status |-> resp.status,
                       ids |-> resp.ids, reasons |-> resp.reasons]
    /\ UNCHANGED << storeVars, cacheVars, used, mIn, mOut, lvIn, lvOut, challengeVars,
                    topkVars, scanVars, lock, models, epc, eret, xIn, notExtract >>

-----------------------------------------------------------------------------
(* Enrollment: routes/embeddings.py, add_embedding                         *)
(* Requests are served by concurrent threads; a thread can be preempted     *)
(* between its database statements and the write of the sample.             *)

AllViews == { "front", "left", "right" }

\* _get_student_views(db, student_id)
get_student_views(db, sid) == { row[2] : row \in { r \in db : r[1] = sid } }

NoAReq == [slot |-> <<"", "">>, emb |-> << >>]
NoAResp == [status |-> 0, wrote |-> FALSE]

\* The checks on the uploaded image, lines 99-119: 0 when the image passes,
\* else the status of the error response
ImageStatus(img) ==
    IF ~img.found THEN 400                                   \* no face detected
    ELSE IF EmptyCrop(crop_face_xyxy(img.w, img.h, img.face.bbox, Pad)) THEN 500
    ELSE IF img.face.blur < BLUR_THRESHOLD THEN 400          \* too blurry
    ELSE LET liveness == evaluate_liveness([w |-> img.w, h |-> img.h,
                                            bbox |-> img.face.bbox, lm |-> img.face.lm,
                                            blur |-> img.face.blur])
         IN  IF liveness.raised THEN 500
             ELSE IF liveness.checked /\ ~liveness.pass THEN 400
             ELSE 0

\* `{"front","left","right"}.issubset(views)` or `view_type in views`
ViewTaken(views, view) == AllViews \subseteq views \/ view \in views

\* add_embedding, lines 50-119: the request is validated, the student's views
\* are read, the image is checked
AddStart(t, sid, view, img) ==
    /\ apc[t] \in {"idle", "done"}
    /\ used' = [used EXCEPT !.adds = @ + 1]
    /\ areq' = [areq EXCEPT ![t] = [slot |-> <<sid, view>>, emb |-> img.face.emb]]
    /\ LET status ==
               IF view \notin AllViews THEN 400
               ELSE IF sid \notin Students THEN 404
               ELSE IF ViewTaken(get_student_views(dbViews, sid), view) THEN 403
               ELSE ImageStatus(img)
       IN  /\ apc' = [apc EXCEPT ![t] = IF status = 0 THEN "save" ELSE "done"]
           /\ aresp' = [aresp EXCEPT ![t] = [status |-> status, wrote |-> FALSE]]
    /\ UNCHANGED << storeVars, cacheVars, mIn, mOut, lvIn, lvOut, challengeVars,
                    topkVars, scanVars, engineVars, notEnroll, dbViews >>

\* add_embedding, lines 122-128: save_face_and_embedding
AddSave(t) ==
    /\ apc[t] = "save"
    /\ SaveEffect(areq[t].slot, areq[t].emb)
    /\ apc' = [apc EXCEPT ![t] = "commit"]
    /\ aresp' = [aresp EXCEPT ![t] = [status |-> 0, wrote |-> TRUE]]
    /\ UNCHANGED << clock, max_samples, cache, nextId, pc, root, latest, items, ret,
                    mIn, mOut, lvIn, lvOut, challengeVars, topkVars, scanVars,
                    engineVars, notEnroll, dbViews, areq >>

\* add_embedding, lines 131-139 and 160-163: the row is inserted; the unique
\* constraint on (student_id, view_type) turns a second insert into the 409
AddCommit(t) ==
    /\ apc[t] = "commit"
    /\ IF areq[t].slot \in dbViews
       THEN /\ aresp' = [aresp EXCEPT ![t].status = 409]
            /\ UNCHANGED dbViews
       ELSE /\ aresp' = [aresp EXCEPT ![t].status = 200]
            /\ dbViews' = dbViews \cup { areq[t].slot }
    /\ apc' = [apc EXCEPT ![t] = "done"]
    /\ UNCHANGED << storeVars, cacheVars, used, mIn, mOut, lvIn, lvOut, challengeVars,
                    topkVars, scanVars, engineVars, notEnroll, areq >>

-----------------------------------------------------------------------------
(* Cropping: utils/embeddings.py, crop_face_xyxy                            *)

\* One bound of a numpy slice a:b on an axis of length n: a negative bound
\* counts from the end, and both are clipped to 0..n
SliceBound(i, n) == IF i < 0 THEN Max(0, n + i) ELSE Min(i, n)

\* The indices image[a:b] selects on an axis of length n
SliceIndices(a, b, n) == { i \in 0..(n - 1) : SliceBound(a, n) <= i /\ i < SliceBound(b, n) }

\* `image_bgr[y1:y2, x1:x2]`: the pixels (x, y) of the returned array
SlicedPixels(w_img, h_img, c) ==
    SliceIndices(c[1], c[3], w_img) \X SliceIndices(c[2], c[4], h_img)

NoCrIn == [w |-> 0, h |-> 0, box |-> <<0, 0, 0, 0>>, pad |-> 0]
NoCrOut == [some |-> FALSE, rect |-> <<0, 0, 0, 0>>, pixels |-> {}]

\* One call of crop_face_xyxy on the inputs under test
Crop ==
    /\ ~crOut.some
    /\ LET c == crop_face_xyxy(crIn.w, crIn.h, crIn.box, crIn.pad)
       IN  crOut' = [some |-> TRUE, rect |-> c,
                     pixels |-> SlicedPixels(crIn.w, crIn.h, c)]
    /\ UNCHANGED << storeVars, cacheVars, used, mIn, mOut, lvIn, lvOut, challengeVars,
                    topkVars, scanVars, engineVars, notCrop, crIn >>

-----------------------------------------------------------------------------
(* Tracker: live/tracker.py, CentroidTracker                               *)
(* Lengths are doubled, which keeps the centroids of the boxes integers.    *)

TRACKER_MAX_DISTANCE == 80        \* the default of max_distance

\* _centroid(box), doubled: (2x + w, 2y + h)
Centroid2(box) == << 2 * box[1] + box[3], 2 * box[2] + box[4] >>

\* the square of the doubled _distance(c1, c2)
Distance2Sq(c1, c2) == (c1[1] - c2[1]) * (c1[1] - c2[1]) + (c1[2] - c2[2]) * (c1[2] - c2[2])

\* `dist > self.max_distance`, on the squares of the doubled lengths
TooFar(d2sq, max_distance) == d2sq > (2 * max_distance) * (2 * max_distance)

\* A faulty variant of Expired: the track is dropped when the count reaches the limit
ExpiredAtLimit(missing, limit) == missing >= limit

\* `st["missing"] > self.max_missing`
Expired(missing, limit) == missing > limit

\* The pair that pairs.sort(key=dist) puts first among `rest`: the smallest
\* distance; the sort is stable, so equal distances keep the order in which
\* the pairs were built (track index, then detection index)
FirstPair(rest, trk, dets) ==
    LET d(p) == Distance2Sq(Centroid2(trk[p[1]].box), Centroid2(dets[p[2]]))
    IN  CHOOSE p \in rest :
            \A q \in rest :
                \/ d(p) < d(q)
                \/ d(p) = d(q) /\ (p[1] < q[1] \/ (p[1] = q[1] /\ p[2] <= q[2]))

\* The greedy matching loop over the sorted pairs: the set of (ti, di) matched
RECURSIVE GreedyMatch(_, _, _, _, _)
GreedyMatch(rest, trk, dets, max_distance, got) ==
    IF rest = {} THEN got
    ELSE LET p == FirstPair(rest, trk, dets)
             d == Distance2Sq(Centroid2(trk[p[1]].box), Centroid2(dets[p[2]]))
             skip == \/ \E m \in got : m[1] = p[1] \/ m[2] = p[2]
                     \/ TooFar(d, max_distance)
         IN  GreedyMatch(rest \ {p}, trk, dets, max_distance,
                         IF skip THEN got ELSE got \cup {p})

\* the tracks whose count does not exceed the limit, in their order
RECURSIVE KeepLive(_, _)
KeepLive(trk, limit) ==
    IF trk = << >> THEN << >>
    ELSE IF Expired(Head(trk).missing, limit) THEN KeepLive(Tail(trk), limit)
    ELSE << Head(trk) >> \o KeepLive(Tail(trk), limit)

\* new tracks for the detections of `dis`, in order, with ids from nid on
RECURSIVE NewTracks(_, _, _)
NewTracks(dets, dis, nid) ==
    IF dis = << >> THEN << >>
    ELSE << [id |-> nid, box |-> dets[Head(dis)], missing |-> 0] >>
         \o NewTracks(dets, Tail(dis), nid + 1)

\* the indices of dets that are not in the set `taken`, ascending
RECURSIVE IndicesNotIn(_, _, _)
IndicesNotIn(n, taken, i) ==
    IF i > n THEN << >>
    ELSE (IF i \in taken THEN << >> ELSE << i >>) \o IndicesNotIn(n, taken, i + 1)

\* CentroidTracker.update(detections) on the table trk: the new table, the new
\* next_id and the ids it matched
tracker_update(trk, nid, limit, max_distance, dets) ==
    IF dets = << >>
    THEN [tracks |-> KeepLive([i \in DOMAIN trk |-> [trk[i] EXCEPT !.missing = @ + 1]], limit),
          next_id |-> nid, matched |-> {}]
    ELSE IF trk = << >>
    THEN [tracks |-> NewTracks(dets, IndicesNotIn(Len(dets), {}, 1), nid),
          next_id |-> nid + Len(dets), matched |-> {}]
    ELSE LET got == GreedyMatch((DOMAIN trk) \X (DOMAIN dets), trk, dets, max_distance, {})
             det_of(ti) == CHOOSE di \in DOMAIN dets : <<ti, di>> \in got
             stepped == [ti \in DOMAIN trk |->
                           IF \E m \in got : m[1] = ti
                           THEN [id |-> trk[ti].id, box |-> dets[det_of(ti)], missing |-> 0]
                           ELSE [trk[ti] EXCEPT !.missing = @ + 1]]
             fresh_dets == IndicesNotIn(Len(dets), { m[2] : m \in got }, 1)
         IN  [tracks |-> KeepLive(stepped, limit) \o NewTracks(dets, fresh_dets, nid),
              next_id |-> nid + Len(fresh_dets),
              matched |-> { trk[m[1]].id : m \in got }]

\* the list update returns: one entry per track of the table
Returned(trk) == [i \in DOMAIN trk |-> [track_id |-> trk[i].id, box |-> trk[i].box]]

\* One call of tracker.update(detections)
Update(dets) ==
    /\ LET u == tracker_update(tracks, next_id, max_missing, TRACKER_MAX_DISTANCE, dets)
       IN  /\ tracks' = u.tracks
           /\ next_id' = u.next_id
           /\ tret' = Returned(u.tracks)
           /\ tmatched' = u.matched
           /\ tgone' = tgone \cup ({ tracks[i].id : i \in DOMAIN tracks }
                                   \ { u.tracks[i].id : i \in DOMAIN u.tracks })
    /\ used' = [used EXCEPT !.updates = @ + 1]
    /\ UNCHANGED << storeVars, cacheVars, mIn, mOut, lvIn, lvOut, challengeVars,
                    topkVars, scanVars, engineVars, notTracker, max_missing >>

-----------------------------------------------------------------------------
(* Live attendance: live/live_attendance.py, run_live_attendance           *)
(* capture_zone is off (the default); the labels drawn on the frame and the *)
(* dictionaries kept for them (track_identity, track_sim) are left out.     *)
(* The store does not change during the run, so recognizer.reload() loads   *)
(* the same gallery again; every detection comes from the YuNet engine      *)
(* (raw is set) and its feature is extracted.                               *)

LIVE_MAX_MISSING == 10            \* CentroidTracker(max_missing=10, ...)
LIVE_MAX_DISTANCE == 90           \* CentroidTracker(..., max_distance=90.0)
LIVE_BLUR == 100                  \* is_blurry(face_img, threshold=100.0)
StartTime == 1000                 \* time.time() at the first frame

\* is_blurry(face)
is_blurry(blur) == blur < LIVE_BLUR

\* dict.get(key, default) on a dictionary kept as a function
GetOr(d, key, default) == IF key \in DOMAIN d THEN d[key] ELSE default

\* d[key] = value
Put(d, key, value) == [k \in DOMAIN d \cup {key} |-> IF k = key THEN value ELSE d[k]]

NoVotes == [sid |-> "", cnt |-> 0]

\* det_by_box.get(tuple(item["box"])): the index of the last detection with
\* that box, 0 for None
DetByBox(dets, box) ==
    LET hits == { i \in DOMAIN dets : dets[i].box = box }
    IN  IF hits = {} THEN 0 ELSE CHOOSE i \in hits : \A j \in hits : j <= i

\* the negation of `now - last >= cooldown_seconds`
InCooldown(t, last, cooldown) == t - last < cooldown

\* The body of the loop over the tracked items, for one item; acc carries
\* track_votes, last_marked and the history; post_ok: requests.post returns
LiveItem(acc, item, dets, do_recognize, t, par, G, meta, post_ok) ==
    LET tid == item.track_id
        det == DetByBox(dets, item.box)
        student_id ==
            IF do_recognize /\ det # 0
            THEN LET r == recognize_embedding(G, meta, dets[det].emb, par.threshold)
                 IN  IF r.raised THEN "None" ELSE r.sid
            ELSE "None"
    IN  IF det # 0 /\ dets[det].score < OPENCV_DET_THRESH THEN acc
        ELSE IF item.box[3] <= 0 \/ item.box[4] <= 0 THEN acc        \* face.size == 0
        ELSE IF det # 0 /\ is_blurry(dets[det].blur) THEN acc
        ELSE IF ~(do_recognize /\ student_id # "None") THEN acc
        ELSE
        LET last == acc.last_marked[student_id]
            old == GetOr(acc.track_votes, tid, NoVotes)
            cnt == IF old.sid = student_id THEN old.cnt + 1 ELSE 1
            seen == GetOr(acc.streak, tid, NoVotes)
            blocked == InCooldown(t, last, par.cooldown_seconds)
            run == (IF seen.sid = student_id THEN seen.cnt ELSE 0)
                   + (IF blocked THEN 0 ELSE 1)
        IN  IF blocked
            THEN [acc EXCEPT !.streak = Put(@, tid, [sid |-> student_id, cnt |-> run])]
            ELSE IF cnt >= par.confirm_frames
            THEN [track_votes |-> Put(acc.track_votes, tid, NoVotes),
                  last_marked |-> IF post_ok
                                  THEN [acc.last_marked EXCEPT ![student_id] = t]
                                  ELSE acc.last_marked,
                  streak |-> Put(acc.streak, tid, NoVotes),
                  posts |-> acc.posts \cup
                            { [tid |-> tid, sid |-> student_id, run |-> run,
                               marked_before |-> last # 0, since |-> t - last] }]
            ELSE [acc EXCEPT !.track_votes = Put(@, tid, [sid |-> student_id, cnt |-> cnt]),
                             !.streak = Put(@, tid, [sid |-> student_id, cnt |-> run])]

\* the loop over the first n tracked items
RECURSIVE LiveItems(_, _, _, _, _, _, _, _, _)
LiveItems(acc, items_, n, dets, do_recognize, t, par, G, meta) ==
    IF n = 0 THEN acc
    ELSE LET prev == LiveItems(acc, items_, n - 1, dets, do_recognize, t, par, G, meta)
         IN  LiveItem(prev, items_[n], dets, do_recognize, t, par, G, meta, par.post_ok)

\* One iteration of the while loop: a frame is read dt seconds after the one
\* before, its detections are tracked, and each tracked item is handled
LiveFrame(dets, dt, post_ok) ==
    LET t == now + dt
        par == [confirm_frames |-> lparams.confirm_frames,
                cooldown_seconds |-> lparams.cooldown_seconds,
                threshold |-> lparams.threshold, post_ok |-> post_ok]
        do_recognize == (frame_i + 1) % lparams.every_n = 0
    IN  \E u \in { tracker_update(tracks, next_id, max_missing, LIVE_MAX_DISTANCE,
                                  [i \in DOMAIN dets |-> dets[i].box]) } :
        \E tracked \in { Returned(u.tracks) } :
        \E acc \in { LiveItems([track_votes |-> track_votes, last_marked |-> last_marked,
                               streak |-> streak, posts |-> {}],
                              tracked, Len(tracked), dets, do_recognize, t, par,
                              lparams.gallery.G, lparams.gallery.meta) } :
            /\ frame_i' = frame_i + 1
            /\ now' = t
            /\ tracks' = u.tracks
            /\ next_id' = u.next_id
            /\ tret' = tracked
            /\ tmatched' = u.matched
            /\ tgone' = tgone \cup ({ tracks[i].id : i \in DOMAIN tracks }
                                    \ { u.tracks[i].id : i \in DOMAIN u.tracks })
            /\ track_votes' = acc.track_votes
            /\ last_marked' = acc.last_marked
            /\ streak' = acc.streak
            /\ posts' = acc.posts
            /\ used' = [used EXCEPT !.frames = @ + 1]
            /\ UNCHANGED << storeVars, cacheVars, mIn, mOut, lvIn, lvOut, challengeVars,
                            topkVars, scanVars, engineVars, notLive, max_missing, lparams >>

-----------------------------------------------------------------------------
(* Inputs of the pure functions                                            *)

NoUse == [saves |-> 0, env |-> 0, deletes |-> 0, calls |-> 0,
          engine_calls |-> 0, model_changes |-> 0, adds |-> 0, updates |-> 0,
          frames |-> 0]

NoLvIn == [w |-> 0, h |-> 0, bbox |-> <<0, 0, 0, 0>>,
           lm |-> [none |-> TRUE, pts |-> << >>], blur |-> 0]

NoMIn == [G |-> GNone, meta |-> << >>, q |-> << >>, th |-> 0]

NoMOut == [some |-> FALSE,
           rec |-> [raised |-> FALSE, sid |-> "None", sim |-> 0],
           best |-> [raised |-> FALSE, sid |-> "", view |-> "", sim |-> 0]]

Images == { <<100, 100>>, <<40, 30>> }
Boxes == { <<10, 10, 50, 60>>, <<0, 0, 100, 100>>, <<30, 30, 30, 30>>, <<60, 20, 20, 70>>,
           <<200, 200, 240, 240>> }
LandmarkSets ==
    { [none |-> TRUE, pts |-> << >>],
      [none |-> FALSE, pts |-> << >>],
      [none |-> FALSE, pts |-> << <<20, 30>> >>],
      [none |-> FALSE, pts |-> << <<20, 30>>, <<40, 30>> >>],
      [none |-> FALSE, pts |-> << <<20, 30>>, <<23, 34>>, <<30, 40>> >>],
      [none |-> FALSE, pts |-> << <<20, 30>>, <<40, 30>>, <<30, 40>>, <<25, 50>>, <<35, 50>> >>] }
Blurs == { 0, 40, 80, 200 }

\* Matrices a slot file can hold: up to MaxM rows of one width
MatchVecs == { <<3, 4>>, <<6, 8>>, <<0, 5>>, <<-4, 3>> }
Queries == MatchVecs \cup { <<0, 0>>, <<5>> }
Thresholds == { 10, 15, 20 }      \* 0.4 (the default), 0.6, 0.8

\* Frames of a challenge burst: (bbox, landmarks) of the best face of a frame
Lm5(nx) == [none |-> FALSE,
            pts |-> << <<nx - 10, 40>>, <<nx + 10, 40>>, <<nx, 55>>,
                       <<nx - 8, 70>>, <<nx + 8, 70>> >>]
Frame(bbox, lm) == [bbox |-> bbox, lm |-> lm]
ChallengeFrames ==
    { Frame(<<0, 0, 100, 100>>, Lm5(30)),                 \* ratio 0.30
      Frame(<<0, 0, 100, 100>>, Lm5(50)),                 \* ratio 0.50
      Frame(<<0, 0, 100, 100>>, Lm5(58)),                 \* ratio 0.58
      Frame(<<0, 0, 100, 100>>, Lm5(70)),                 \* ratio 0.70
      Frame(<<10, 0, 60, 50>>, Lm5(35)),                  \* ratio 0.50, another box
      Frame(<<50, 0, 50, 80>>, Lm5(50)),                  \* a box of width 0: ratio 0.0
      Frame(<<0, 0, 100, 100>>, [none |-> TRUE, pts |-> << >>]),
      Frame(<<0, 0, 100, 100>>, [none |-> FALSE, pts |-> << <<40, 40>>, <<60, 40>> >>]) }
Challenges == { "turn_left", "turn_right", "left_right", "blink" }

NoChIn == [frames |-> << >>, challenge |-> ""]

\* Stored vectors, queries and k for top_k_matches
TopKVecs == { <<3, 4>>, <<4, 3>>, <<-4, 3>> }
TopKQueries == { <<3, 4>>, <<0, 5>>, <<5>> }
Ks == { -1, 0, 1, 2, 3, 5 }

NoTkIn == [G |-> GNone, meta |-> << >>, q |-> << >>]

\* Detected faces of a class photo of 100 x 100 pixels
DetectedFace(det, bbox, lm, blur, emb) ==
    [det |-> det, bbox |-> bbox, lm |-> lm, blur |-> blur, emb |-> emb]
ScanFaceSet ==
    { DetectedFace(90, <<10, 10, 50, 60>>, Lm5(30), 200, <<3, 4>>),
      DetectedFace(90, <<10, 10, 50, 60>>, Lm5(30), 200, <<0, 5>>),
      DetectedFace(50, <<10, 10, 50, 60>>, Lm5(30), 200, <<3, 4>>),       \* weak detection
      DetectedFace(90, <<10, 10, 50, 60>>, Lm5(30), 40, <<3, 4>>),        \* blurred
      DetectedFace(90, <<10, 10, 50, 60>>, [none |-> TRUE, pts |-> << >>], 200, <<-4, 3>>),
      DetectedFace(90, <<10, 10, 20, 20>>,                                \* small, eyes close
                   [none |-> FALSE, pts |-> << <<14, 14>>, <<15, 14>>, <<15, 16>> >>],
                   200, <<3, 4>>) }
ScanStores ==
    { [sl \in Slots |-> << >>],
      [sl \in Slots |-> IF sl[1] = "s1" THEN << <<3, 4>> >> ELSE << >>],
      [sl \in Slots |-> IF sl[1] = "s1" THEN << <<3, 4>> >> ELSE << <<-4, 3>> >>] }
\* Faces for the gates: those of a class photo, and two that fail two gates
GateFaceSet ==
    ScanFaceSet \cup
    { DetectedFace(50, <<10, 10, 50, 60>>, Lm5(30), 40, <<3, 4>>),        \* weak and blurred
      DetectedFace(90, <<10, 10, 20, 20>>,                                \* blurred, eyes close
                   [none |-> FALSE, pts |-> << <<14, 14>>, <<15, 14>>, <<15, 16>> >>],
                   40, <<3, 4>>) }
LivenessModes == { <<FALSE, FALSE>>, <<TRUE, FALSE>>, <<TRUE, TRUE>> }

NoScIn == [w |-> 0, h |-> 0, faces |-> << >>, G |-> GNone, meta |-> << >>,
           threshold |-> 0, blur_threshold |-> 0, liveness_enabled |-> FALSE,
           liveness_required |-> FALSE, enrolled |-> {}, marked |-> {},
           course_given |-> FALSE]
NoTkOut == [some |-> FALSE, k |-> 0, raised |-> FALSE, out |-> << >>]

RECURSIVE SeqsUpTo(_, _)
SeqsUpTo(S, n) ==
    IF n = 0 THEN { << >> }
    ELSE LET shorter == SeqsUpTo(S, n - 1)
         IN  shorter \cup { Append(sq, x) : sq \in { y \in shorter : Len(y) = n - 1 }, x \in S }

Matrices == SeqsUpTo(MatchVecs, MaxM)

\* The files of a store whose slots hold the given matrices (<< >>: no file)
DirOf(mats) ==
    [sl \in Slots |-> IF mats[sl] = << >> THEN Absent ELSE NpyFile(mats[sl], 1)]

\* Photos: each face with the detector's score, box, landmarks and blur score
PhotoFace(who) ==
    [who |-> who, det |-> 90, bbox |-> <<10, 10, 50, 60>>, lm |-> Lm5(30), blur |-> 200]
Photos == { [w |-> 100, h |-> 100, faces |-> fc] :
            fc \in SeqsUpTo({ PhotoFace(who) : who \in Persons }, MaxFaces) }

\* Stores whose samples were all enrolled through one extraction path
Paths == { "sface", "fallback" }
EnrolledVec(path, sid) ==
    IF path = "sface" THEN L2Normalize(SFaceFeature(sid))
    ELSE compute_embedding(sid, FallbackSize)
EnrolledStores ==
    { [sl \in Slots |-> IF sl[1] \in who THEN << EnrolledVec(path, sl[1]) >> ELSE << >>] :
      path \in Paths, who \in SUBSET Students }

\* Uploads: no face, a blurred face, a face that fails liveness, two good ones
Upload(found, face) == [w |-> 100, h |-> 100, found |-> found, face |-> face]
Uploads ==
    { Upload(FALSE, DetectedFace(0, <<0, 0, 0, 0>>, [none |-> TRUE, pts |-> << >>], 0, << >>)),
      Upload(TRUE, DetectedFace(90, <<10, 10, 50, 60>>, Lm5(30), 40, <<3, 4>>)),
      Upload(TRUE, DetectedFace(90, <<10, 10, 20, 20>>,
                   [none |-> FALSE, pts |-> << <<14, 14>>, <<15, 14>>, <<15, 16>> >>],
                   200, <<3, 4>>)),
      Upload(TRUE, DetectedFace(90, <<10, 10, 50, 60>>, Lm5(30), 200, <<3, 4>>)),
      Upload(TRUE, DetectedFace(90, <<10, 10, 50, 60>>, Lm5(30), 200, <<5>>)) }

NoXIn == [img |-> [w |-> 0, h |-> 0, faces |-> << >>], req |-> NoScIn]
NoXOut == [some |-> FALSE, engine |-> 0, status |-> 0, ids |-> {}, reasons |-> << >>]

-----------------------------------------------------------------------------
(* Specifications                                                          *)

InitStoreVars ==
    /\ fs = [r \in Roots |-> [sl \in Slots |-> Absent]]
    /\ clock = 1
    /\ hist = [sl \in Slots |-> NoHist]
    /\ lastSave = NoSave
    /\ faces = [sid \in Students |-> 0]
    /\ delRet = NoDelRet

InitCacheVars ==
    /\ cache = [r \in Roots |-> NoCacheEntry]
    /\ nextId = 1
    /\ pc = [t \in Threads |-> "idle"]
    /\ root = [t \in Threads |-> EMB_DIR]
    /\ latest = [t \in Threads |-> 0]
    /\ items = [t \in Threads |-> << >>]
    /\ ret = [t \in Threads |-> NoRet]
    /\ fresh = [t \in Threads |-> FALSE]
    /\ stable = [r \in Roots |-> 0]
    /\ expect = [t \in Threads |-> 0]

InitChallengeVars ==
    /\ chIn = NoChIn
    /\ chOut = NoChallengeVerdict

InitTopKVars ==
    /\ tkIn = NoTkIn
    /\ tkOut = NoTkOut

InitScanVars ==
    /\ scIn = NoScIn
    /\ scOut = [debug \in BOOLEAN |-> NoScan]
    /\ bmOut = [debug \in BOOLEAN |-> NoScan]

\* A fresh process: `_engine = None`, `_lock = Lock()`
InitEngineState ==
    /\ engine = 0
    /\ lock = "free"
    /\ epc = [t \in Threads |-> "idle"]
    /\ eret = [t \in Threads |-> NoEngineRet]
    /\ inits = 0

InitEngineVars == InitEngineState /\ models = TRUE

InitExtractVars == xIn = NoXIn /\ xOut = NoXOut

\* No face_embeddings row, no request received
InitEnrollVars ==
    /\ dbViews = {}
    /\ apc = [t \in Threads |-> "idle"]
    /\ areq = [t \in Threads |-> NoAReq]
    /\ aresp = [t \in Threads |-> NoAResp]

InitCropVars == crIn = NoCrIn /\ crOut = NoCrOut

\* CentroidTracker(): no track, next_id 1, the default max_missing (10), scaled
InitTrackerState ==
    /\ tracks = << >>
    /\ next_id = 1
    /\ tret = << >>
    /\ tmatched = {}
    /\ tgone = {}

InitTrackerVars == InitTrackerState /\ max_missing = 1

\* run_live_attendance before the first frame; time.time() is far from 0
InitMarkState ==
    /\ last_marked = [sid \in Students |-> 0]
    /\ track_votes = << >>
    /\ now = StartTime
    /\ frame_i = 0
    /\ streak = << >>
    /\ posts = {}

InitMarkVars ==
    /\ InitMarkState
    /\ lparams = [confirm_frames |-> 2, cooldown_seconds |-> 30, every_n |-> 3,
                  threshold |-> 10, gallery |-> build_gallery(<< >>)]

InitExtraVars ==
    InitExtractVars /\ InitEnrollVars /\ InitCropVars /\ InitTrackerVars /\ InitMarkVars

InitRestVars ==
    InitChallengeVars /\ InitTopKVars /\ InitScanVars /\ InitEngineVars /\ InitExtraVars

InitPureVars ==
    /\ mIn = NoMIn
    /\ mOut = NoMOut
    /\ lvIn = NoLvIn
    /\ lvOut = NoVerdict
    /\ InitRestVars

\* The embedding store alone: saves, deletes and corrupted files
InitStore ==
    /\ InitStoreVars /\ InitCacheVars /\ InitPureVars
    /\ max_samples \in 1..MaxM
    /\ used = NoUse

NextStore ==
    \/ \E sl \in Slots, emb \in StoreVecs : used.saves < MaxSaves /\ Save(sl, emb)
    \/ \E sl \in Slots : used.env < MaxEnv /\ Corrupt(sl, "corrupt")
    \/ \E sid \in Students : used.deletes < MaxDeletes /\ Delete(sid)

SpecStore == InitStore /\ [][NextStore]_vars

Writes == used.saves + used.env + used.deletes

\* The gallery cache over the store, with concurrent load_gallery_cached calls
Init ==
    /\ InitStoreVars /\ InitCacheVars /\ InitPureVars
    /\ max_samples = MaxM
    /\ used = NoUse

Next ==
    \/ \E sl \in Slots, emb \in CacheVecs : Writes < MaxWrites /\ Save(sl, emb)
    \/ \E sid \in Students : Writes < MaxWrites /\ Delete(sid)
    \/ Tick
    \/ \E t \in Threads, r \in ServedRoots : used.calls < MaxCalls /\ CallStart(t, r)
    \/ \E t \in Threads : Check(t) \/ Load(t) \/ Build(t)

Spec == Init /\ [][Next]_vars

\* One caller: saves, deletes, corruptions and load_gallery_cached calls strictly
\* one after the other
CallInFlight(t) == pc[t] \in {"check", "load", "build"}

NextSeq ==
    \/ /\ ~CallInFlight("t1")
       /\ \/ \E sl \in Slots, emb \in CacheVecs : Writes < MaxSeqWrites /\ Save(sl, emb)
          \/ \E sl \in Slots, bad \in BadKinds : Writes < MaxSeqWrites /\ Corrupt(sl, bad)
          \/ \E sid \in Students : Writes < MaxSeqWrites /\ Delete(sid)
          \/ Tick
          \/ \E r \in ServedRoots : used.calls < MaxSeqCalls /\ CallStart("t1", r)
    \/ Check("t1") \/ Load("t1") \/ Build("t1")

SpecSeq == Init /\ [][NextSeq]_vars

\* Two gallery directories: the routes write to EMB_DIR only; TEST_DIR holds one
\* sample from the start.  One caller: writes and calls on either root, one
\* after the other.
InitRoots ==
    /\ fs = [r \in Roots |->
                [sl \in Slots |-> IF r = TEST_DIR /\ sl = <<"s1", "front">>
                                  THEN NpyFile(<< <<0, 5>> >>, 1) ELSE Absent]]
    /\ clock = 1
    /\ hist = [sl \in Slots |-> NoHist]
    /\ lastSave = NoSave
    /\ faces = [sid \in Students |-> 0]
    /\ delRet = NoDelRet
    /\ InitCacheVars /\ InitPureVars
    /\ max_samples = MaxM
    /\ used = NoUse

NextRoots ==
    \/ /\ ~CallInFlight("t1")
       /\ \/ \E sl \in Slots, emb \in CacheVecs : Writes < MaxRootWrites /\ Save(sl, emb)
          \/ \E sid \in Students : Writes < MaxRootWrites /\ Delete(sid)
          \/ Tick
          \/ \E r \in Roots : used.calls < MaxRootCalls /\ CallStart("t1", r)
    \/ Check("t1") \/ Load("t1") \/ Build("t1")

SpecRoots == InitRoots /\ [][NextRoots]_vars

\* The matcher functions on every gallery build_gallery yields from a small store
MatchCall ==
    /\ ~mOut.some
    /\ mOut' = [some |-> TRUE,
                rec |-> recognize_embedding(mIn.G, mIn.meta, mIn.q, mIn.th),
                best |-> best_match_vectorized(mIn.q, mIn.G, mIn.meta)]
    /\ UNCHANGED << storeVars, cacheVars, used, mIn, lvIn, lvOut, restVars >>

InitMatch ==
    /\ InitStoreVars /\ InitCacheVars
    /\ max_samples = MaxM
    /\ used = NoUse
    /\ \E mats \in [Slots -> Matrices], q \in Queries, th \in Thresholds :
          LET b == build_gallery(load_all_embeddings(DirOf(mats)))
          IN  mIn = [G |-> b.G, meta |-> b.meta, q |-> q, th |-> th]
    /\ mOut = NoMOut
    /\ lvIn = NoLvIn
    /\ lvOut = NoVerdict
    /\ InitRestVars

NextMatch == MatchCall

SpecMatch == InitMatch /\ [][NextMatch]_vars

\* evaluate_liveness on every combination of the inputs
InitLive ==
    /\ InitStoreVars /\ InitCacheVars
    /\ max_samples = MaxM
    /\ used = NoUse
    /\ mIn = NoMIn
    /\ mOut = NoMOut
    /\ \E im \in Images, box \in Boxes, lm \in LandmarkSets, b \in Blurs :
          lvIn = [w |-> im[1], h |-> im[2], bbox |-> box, lm |-> lm, blur |-> b]
    /\ lvOut = NoVerdict
    /\ InitRestVars

NextLive == Evaluate

SpecLive == InitLive /\ [][NextLive]_vars

\* evaluate_liveness_challenge on every burst of up to MaxFrames frames
InitChallenge ==
    /\ InitStoreVars /\ InitCacheVars
    /\ max_samples = MaxM
    /\ used = NoUse
    /\ mIn = NoMIn
    /\ mOut = NoMOut
    /\ lvIn = NoLvIn
    /\ lvOut = NoVerdict
    /\ \E frames \in SeqsUpTo(ChallengeFrames, MaxFrames), ch \in Challenges :
          chIn = [frames |-> frames, challenge |-> ch]
    /\ chOut = NoChallengeVerdict
    /\ InitTopKVars
    /\ InitScanVars
    /\ InitEngineVars
    /\ InitExtraVars

NextChallenge == EvaluateChallenge

SpecChallenge == InitChallenge /\ [][NextChallenge]_vars

\* One call of top_k_matches on the gallery and query under test
TopKCall(k) ==
    /\ ~tkOut.some
    /\ \E res \in top_k_matches(tkIn.q, tkIn.G, tkIn.meta, k) :
          tkOut' = [some |-> TRUE, k |-> k, raised |-> res.raised, out |-> res.out]
    /\ UNCHANGED << storeVars, cacheVars, used, mIn, mOut, lvIn, lvOut,
                    challengeVars, tkIn, scanVars, engineVars, extraVars >>

\* top_k_matches on every gallery build_gallery yields from a small store
InitTopK ==
    /\ InitStoreVars /\ InitCacheVars
    /\ max_samples = MaxM
    /\ used = NoUse
    /\ mIn = NoMIn
    /\ mOut = NoMOut
    /\ lvIn = NoLvIn
    /\ lvOut = NoVerdict
    /\ InitChallengeVars
    /\ \E mats \in [Slots -> SeqsUpTo(TopKVecs, MaxM)], q \in TopKQueries :
          LET b == build_gallery(load_all_embeddings(DirOf(mats)))
          IN  tkIn = [G |-> b.G, meta |-> b.meta, q |-> q]
    /\ tkOut = NoTkOut
    /\ InitScanVars
    /\ InitEngineVars
    /\ InitExtraVars

NextTopK == \E k \in Ks : TopKCall(k)

SpecTopK == InitTopK /\ [][NextTopK]_vars

\* scan_image with debug off and with debug on, on every request
InitScan ==
    /\ InitStoreVars /\ InitCacheVars
    /\ max_samples = MaxM
    /\ used = NoUse
    /\ mIn = NoMIn
    /\ mOut = NoMOut
    /\ lvIn = NoLvIn
    /\ lvOut = NoVerdict
    /\ InitChallengeVars
    /\ InitTopKVars
    /\ \E dets \in SeqsUpTo(ScanFaceSet, MaxFaces), mats \in ScanStores,
          th \in {10, 20}, lv \in LivenessModes,
          enrolled \in { {}, {"s1"}, Students }, marked \in { {}, {"s1"} } :
          LET b == build_gallery(load_all_embeddings(DirOf(mats)))
          IN  scIn = [w |-> 100, h |-> 100, faces |-> dets, G |-> b.G, meta |-> b.meta,
                      threshold |-> th, blur_threshold |-> BLUR_THRESHOLD,
                      liveness_enabled |-> lv[1], liveness_required |-> lv[2],
                      enrolled |-> enrolled, marked |-> marked, course_given |-> TRUE]
    /\ scOut = [debug \in BOOLEAN |-> NoScan]
    /\ bmOut = [debug \in BOOLEAN |-> NoScan]
    /\ InitEngineVars
    /\ InitExtraVars

NextScan == \E debug \in BOOLEAN : Scan(debug)

SpecScan == InitScan /\ [][NextScan]_vars

\* scan_image and benchmark on the same photo, with and without debug
InitGates ==
    /\ InitStoreVars /\ InitCacheVars
    /\ max_samples = MaxM
    /\ used = NoUse
    /\ mIn = NoMIn
    /\ mOut = NoMOut
    /\ lvIn = NoLvIn
    /\ lvOut = NoVerdict
    /\ InitChallengeVars
    /\ InitTopKVars
    /\ \E dets \in SeqsUpTo(GateFaceSet, MaxFaces), mats \in ScanStores,
          lv \in LivenessModes, course \in BOOLEAN :
          LET b == build_gallery(load_all_embeddings(DirOf(mats)))
          IN  scIn = [w |-> 100, h |-> 100, faces |-> dets, G |-> b.G, meta |-> b.meta,
                      threshold |-> 10, blur_threshold |-> BLUR_THRESHOLD,
                      liveness_enabled |-> lv[1], liveness_required |-> lv[2],
                      enrolled |-> {"s1"}, marked |-> {}, course_given |-> course]
    /\ scOut = [debug \in BOOLEAN |-> NoScan]
    /\ bmOut = [debug \in BOOLEAN |-> NoScan]
    /\ InitEngineVars
    /\ InitExtraVars

NextGates ==
    \/ \E debug \in BOOLEAN : scIn.course_given /\ Scan(debug)
    \/ \E debug \in BOOLEAN : Benchmark(debug)

SpecGates == InitGates /\ [][NextGates]_vars

\* Concurrent get_engine calls in one process
InitEngine ==
    /\ InitStoreVars /\ InitCacheVars
    /\ max_samples = MaxM
    /\ used = NoUse
    /\ mIn = NoMIn
    /\ mOut = NoMOut
    /\ lvIn = NoLvIn
    /\ lvOut = NoVerdict
    /\ InitChallengeVars
    /\ InitTopKVars
    /\ InitScanVars
    /\ InitEngineState
    /\ models \in BOOLEAN
    /\ InitExtraVars

NextEngine ==
    \/ \E t \in Threads : used.engine_calls < MaxEngineCalls /\ GetEngineStart(t)
    \/ \E t \in Threads : GetEngineFast(t) \/ GetEngineAcquire(t) \/ GetEngineInit(t)
    \/ \E t \in Threads : GetEngineRelease(t) \/ GetEngineReturn(t)
    \/ used.model_changes < MaxModelChanges /\ ModelsChange

SpecEngine == InitEngine /\ [][NextEngine]_vars

\* A scan-image request with the model files present or missing, on stores
\* enrolled through either extraction path
InitExtract ==
    /\ InitStoreVars /\ InitCacheVars
    /\ max_samples = MaxM
    /\ used = NoUse
    /\ mIn = NoMIn
    /\ mOut = NoMOut
    /\ lvIn = NoLvIn
    /\ lvOut = NoVerdict
    /\ InitChallengeVars
    /\ InitTopKVars
    /\ InitScanVars
    /\ InitEngineState
    /\ models \in BOOLEAN
    /\ \E img \in Photos, mats \in EnrolledStores, lv \in LivenessModes :
          LET b == build_gallery(load_all_embeddings(DirOf(mats)))
          IN  xIn = [img |-> img,
                     req |-> [w |-> img.w, h |-> img.h, faces |-> << >>,
                              G |-> b.G, meta |-> b.meta,
                              threshold |-> 10, blur_threshold |-> BLUR_THRESHOLD,
                              liveness_enabled |-> lv[1], liveness_required |-> lv[2],
                              enrolled |-> Students, marked |-> {},
                              course_given |-> TRUE]]
    /\ xOut = NoXOut
    /\ InitEnrollVars /\ InitCropVars /\ InitTrackerVars /\ InitMarkVars

NextExtract == ExtractAndScan

SpecExtract == InitExtract /\ [][NextExtract]_vars

\* Concurrent add_embedding requests on an empty database and store
InitEnroll ==
    /\ InitStoreVars /\ InitCacheVars /\ InitPureVars
    /\ max_samples = MaxM
    /\ used = NoUse

NextEnroll ==
    \/ \E t \in Threads, sid \in Students \cup {"nobody"}, view \in Views \cup {"side"},
          img \in Uploads :
          used.adds < MaxAdds /\ AddStart(t, sid, view, img)
    \/ \E t \in Threads : AddSave(t) \/ AddCommit(t)

SpecEnroll == InitEnroll /\ [][NextEnroll]_vars

\* crop_face_xyxy on every box with x1 <= x2 and y1 <= y2 that lies inside,
\* partly outside or wholly outside a small image
CropImages == { <<3, 2>>, <<2, 3>> }
CropBoxes(w, h) ==
    { <<x1, y1, x2, y2>> : x1 \in (0 - MaxOutside)..(w + MaxOutside),
                           y1 \in (0 - MaxOutside)..(h + MaxOutside),
                           x2 \in (0 - MaxOutside)..(w + MaxOutside),
                           y2 \in (0 - MaxOutside)..(h + MaxOutside) }

InitCrop ==
    /\ InitStoreVars /\ InitCacheVars
    /\ max_samples = MaxM
    /\ used = NoUse
    /\ mIn = NoMIn
    /\ mOut = NoMOut
    /\ lvIn = NoLvIn
    /\ lvOut = NoVerdict
    /\ InitChallengeVars /\ InitTopKVars /\ InitScanVars /\ InitEngineVars
    /\ InitExtractVars /\ InitEnrollVars
    /\ \E im \in CropImages, pad \in 0..MaxPad :
          \E box \in { b \in CropBoxes(im[1], im[2]) : b[1] <= b[3] /\ b[2] <= b[4] } :
              crIn = [w |-> im[1], h |-> im[2], box |-> box, pad |-> pad]
    /\ crOut = NoCrOut
    /\ InitTrackerVars /\ InitMarkVars

NextCrop == Crop

SpecCrop == InitCrop /\ [][NextCrop]_vars

\* Detections of a frame, boxes (x, y, w, h): two faces 30 pixels apart and one
\* far from both
BoxA == <<0, 0, 20, 20>>
BoxB == <<30, 0, 20, 20>>
BoxC == <<200, 0, 20, 20>>
DetectionLists ==
    { << >>, << BoxA >>, << BoxB >>, << BoxC >>, << BoxA, BoxC >>, << BoxB, BoxA >> }

\* A tracker built with some max_missing, then updated frame after frame
InitTracker ==
    /\ InitStoreVars /\ InitCacheVars
    /\ max_samples = MaxM
    /\ used = NoUse
    /\ mIn = NoMIn
    /\ mOut = NoMOut
    /\ lvIn = NoLvIn
    /\ lvOut = NoVerdict
    /\ InitChallengeVars /\ InitTopKVars /\ InitScanVars /\ InitEngineVars
    /\ InitExtractVars /\ InitEnrollVars /\ InitCropVars
    /\ InitTrackerState
    /\ max_missing \in 0..MaxMissingLimit
    /\ InitMarkVars

NextTracker == \E dets \in DetectionLists : used.updates < MaxUpdates /\ Update(dets)

SpecTracker == InitTracker /\ [][NextTracker]_vars

\* Frames of the live camera: the detections of a frame, each with its box,
\* score, blur and the feature of the face
LiveDet(box, score, blur, emb) == [box |-> box, score |-> score, blur |-> blur, emb |-> emb]
LiveFrames ==
    { << >>,
      << LiveDet(BoxA, 90, 200, <<3, 4>>) >>,                      \* student s1
      << LiveDet(BoxA, 90, 200, <<-4, 3>>) >>,                     \* student s2
      << LiveDet(BoxA, 90, 200, <<4, -3>>) >>,                     \* nobody enrolled
      << LiveDet(BoxA, 90, 50, <<3, 4>>) >>,                       \* blurred
      << LiveDet(BoxA, 90, 200, <<3, 4>>), LiveDet(BoxC, 90, 200, <<3, 4>>) >> }

\* The gallery the recognizer loaded: one sample of each student
LiveStore == [sl \in Slots |-> IF sl[1] = "s1" THEN << <<3, 4>> >> ELSE << <<-4, 3>> >>]
LiveGallery == build_gallery(load_all_embeddings(DirOf(LiveStore)))

\* run_live_attendance with confirm_frames 1 or 2, a cooldown of 2 seconds and
\* recognition on every frame or on every second one
InitMark ==
    /\ InitStoreVars /\ InitCacheVars
    /\ max_samples = MaxM
    /\ used = NoUse
    /\ mIn = NoMIn
    /\ mOut = NoMOut
    /\ lvIn = NoLvIn
    /\ lvOut = NoVerdict
    /\ InitChallengeVars /\ InitTopKVars /\ InitScanVars /\ InitEngineVars
    /\ InitExtractVars /\ InitEnrollVars /\ InitCropVars
    /\ InitTrackerState
    /\ max_missing = LIVE_MAX_MISSING
    /\ InitMarkState
    /\ \E c \in {1, 2}, n \in {1, 2} :
          lparams = [confirm_frames |-> c, cooldown_seconds |-> 2, every_n |-> n,
                     threshold |-> 10, gallery |-> LiveGallery]

NextMark ==
    \E dets \in LiveFrames, dt \in {0, 1}, post_ok \in BOOLEAN :
        used.frames < MaxLiveFrames /\ LiveFrame(dets, dt, post_ok)

SpecMark == InitMark /\ [][NextMark]_vars

-----------------------------------------------------------------------------
(* Claims about the embedding store (SpecStore)                            *)

\* C2: whatever saves, deletes and corruptions came before, a readable slot
\* file holds between 1 and max_samples rows, and the slot written by the
\* last save is such a file (first-write and overwrite branches included).
C2_Capacity ==
    /\ \A sl \in Slots :
          fs[EMB_DIR][sl].kind = "npy" =>
              /\ Len(fs[EMB_DIR][sl].rows) >= 1
              /\ Len(fs[EMB_DIR][sl].rows) <= max_samples
    /\ lastSave.some => fs[EMB_DIR][lastSave.slot].kind = "npy"

\* A slot that is full after more saves than it can hold
C2_Witness ==
    \E sl \in Slots :
        /\ fs[EMB_DIR][sl].kind = "npy"
        /\ Len(hist[sl].seq) > max_samples
        /\ Len(fs[EMB_DIR][sl].rows) = max_samples
        /\ max_samples >= 2

\* The last min(n, m) entries of a save history h, oldest first
LastOfHistory(h, m) ==
    LET n == Len(h)
        k == IF n < m THEN n ELSE m
    IN  [i \in 1..k |-> h[n - k + i]]

\* C3: after n saves v1..vn of vectors of one dimension to a slot that was
\* absent before v1 (and was not corrupted since), the file holds exactly the
\* last min(n, max_samples) of them in insertion order, newest last.
C3_Fifo ==
    \A sl \in Slots :
        (hist[sl].ok /\ hist[sl].seq # << >>) =>
            /\ fs[EMB_DIR][sl].kind = "npy"
            /\ fs[EMB_DIR][sl].rows = LastOfHistory(hist[sl].seq, max_samples)

\* More saves than the slot holds, and the earliest vector, unlike every later
\* one, is gone
C3_Witness ==
    \E sl \in Slots :
        /\ hist[sl].ok
        /\ Len(hist[sl].seq) > max_samples
        /\ max_samples >= 2
        /\ \A i \in DOMAIN fs[EMB_DIR][sl].rows :
              fs[EMB_DIR][sl].rows[i] # hist[sl].seq[1]

\* C16: a save to a slot whose file is unreadable does not fail, and the slot
\* afterwards holds exactly one row, the vector just saved.
C16_CorruptOverwritten ==
    (lastSave.some /\ lastSave.pre.kind = "corrupt") =>
        /\ ~lastSave.raised
        /\ fs[EMB_DIR][lastSave.slot].kind = "npy"
        /\ fs[EMB_DIR][lastSave.slot].rows = << lastSave.emb >>

\* Two saves, then the file became unreadable, then a third save
C16_Witness ==
    /\ lastSave.some
    /\ lastSave.pre.kind = "corrupt"
    /\ Len(hist[lastSave.slot].seq) = 3
    /\ Len(fs[EMB_DIR][lastSave.slot].rows) = 1

\* C17: a save of a vector whose dimension differs from that of the samples
\* in a readable slot file raises, and the samples of the slot stay as they were.
C17_MismatchRaises ==
    (/\ lastSave.some
     /\ lastSave.pre.kind = "npy"
     /\ lastSave.pre.rows # << >>
     /\ Len(lastSave.pre.rows[1]) # Len(lastSave.emb)) =>
        /\ lastSave.raised
        /\ fs[EMB_DIR][lastSave.slot].rows = lastSave.pre.rows

-----------------------------------------------------------------------------
(* Claims about the store under one caller (SpecSeq)                       *)

\* C18: a delete of an identity with no stored file returns zero counts and
\* changes nothing, and so does a delete that directly follows a delete of the
\* same identity.
C18_DeleteIdempotent ==
    [][(/\ used'.deletes = used.deletes + 1
        /\ \/ delRet.some /\ delRet.sid = delRet'.sid
           \/ EmbFiles(fs[EMB_DIR], delRet'.sid) = 0 /\ faces[delRet'.sid] = 0) =>
           /\ delRet'.some
           /\ delRet'.embeddings_deleted = 0
           /\ delRet'.faces_deleted = 0
           /\ fs' = fs
           /\ faces' = faces]_vars

\* The second of two deletes in a row, the first of which removed files
C18_Witness ==
    /\ delRet.some
    /\ delRet.repeat
    /\ delRet.before >= 2
    /\ delRet.embeddings_deleted = 0
    /\ delRet.faces_deleted = 0

\* Slot files that hold samples, and slot files that are unreadable, empty or malformed
HealthySlots(dir) == { sl \in Slots : dir[sl].kind = "npy" /\ dir[sl].rows # << >> }
BadSlots(dir) ==
    { sl \in Slots : \/ dir[sl].kind \in {"corrupt", "scalar"}
                     \/ dir[sl].kind = "npy" /\ dir[sl].rows = << >> }

\* C19: when some slot files are unreadable, malformed or empty,
\* load_all_embeddings returns exactly one entry for each slot file that holds
\* samples, and build_gallery makes of what it returned a gallery that holds
\* all rows of those slots.
C19_ScanTolerant ==
    \A t \in Threads :
        (pc[t] = "build" /\ BadSlots(fs[root[t]]) # {}) =>
            LET b == build_gallery(items[t])
            IN  /\ \A sl \in HealthySlots(fs[root[t]]) :
                      Cardinality({ i \in DOMAIN items[t] :
                                      /\ items[t][i].sid = sl[1]
                                      /\ items[t][i].view = sl[2]
                                      /\ items[t][i].mat = fs[root[t]][sl].rows }) = 1
                /\ ~b.raised
                /\ \A sl \in HealthySlots(fs[root[t]]) :
                      Cardinality({ i \in DOMAIN b.meta : b.meta[i] = sl })
                          = Len(fs[root[t]][sl].rows)

-----------------------------------------------------------------------------
(* Claims about the gallery cache (Spec)                                   *)

\* No row is readable under a root
NoVectors(dir) == \A sl \in Slots : dir[sl].kind # "npy" \/ dir[sl].rows = << >>

RECURSIVE TotalRows(_, _)
TotalRows(dir, i) ==
    IF i = 0 THEN 0
    ELSE TotalRows(dir, i - 1)
         + (IF dir[SlotOrder[i]].kind = "npy" THEN Len(dir[SlotOrder[i]].rows) ELSE 0)

\* C1: a call of load_gallery_cached that began after the latest save (no
\* write since) returns a gallery holding the saved vector's row for its
\* slot, and as many rows as the store holds.
C1_AppendReflected ==
    \A t \in Threads :
        (pc[t] = "done" /\ fresh[t] /\ lastSave.some) =>
            /\ \E i \in DOMAIN ret[t].meta :
                  /\ ret[t].meta[i] = lastSave.slot
                  /\ ret[t].G.rows[i] = L2Normalize(lastSave.emb)
            /\ Len(ret[t].G.rows) = TotalRows(fs[root[t]], Len(SlotOrder))

\* C28: a call of load_gallery_cached that began after delete_student_face_data
\* removed a student (no write since) returns a gallery whose metadata has no
\* row of that student.
C28_DeleteReflected ==
    \A t \in Threads :
        (pc[t] = "done" /\ fresh[t] /\ delRet.some) =>
            \A i \in DOMAIN ret[t].meta : ret[t].meta[i][1] # delRet.sid

\* C6: a call of load_gallery_cached that began when no vector existed under
\* the root (no write since) returns (None, []), and recognize_embedding on
\* what it returned gives (None, -1.0) for every query.
C6_EmptyGallery ==
    \A t \in Threads :
        (pc[t] = "done" /\ fresh[t] /\ NoVectors(fs[root[t]])) =>
            /\ ret[t].G.none
            /\ ret[t].meta = << >>
            /\ \A q \in Queries, th \in Thresholds :
                  recognize_embedding(ret[t].G, ret[t].meta, q, th)
                      = [raised |-> FALSE, sid |-> "None", sim |-> MinusOne]

RECURSIVE SumRows(_, _)
SumRows(its, i) == IF i = 0 THEN 0 ELSE SumRows(its, i - 1) + Len(its[i].mat)

\* The item of `its` that row i of the stacked matrix comes from
OwnerOfRow(its, i) ==
    CHOOSE k \in DOMAIN its : SumRows(its, k - 1) < i /\ i <= SumRows(its, k)

\* A (G, meta) pair built from the items src: as many rows as metadata entries
\* as samples loaded, row i being the normalised sample of the slot meta[i] names
WellFormed(g) ==
    /\ Len(g.G.rows) = Len(g.meta)
    /\ Len(g.meta) = SumRows(g.src, Len(g.src))
    /\ g.G.none <=> g.meta = << >>
    /\ \A i \in DOMAIN g.meta :
          LET it == g.src[OwnerOfRow(g.src, i)]
              k == i - SumRows(g.src, OwnerOfRow(g.src, i) - 1)
          IN  /\ g.meta[i] = << it.sid, it.view >>
              /\ g.G.rows[i] = L2Normalize(it.mat[k])

\* C7: every pair a call has returned and every cache entry is well formed,
\* whatever the other threads are doing.
C7_WellFormed ==
    /\ \A t \in Threads : pc[t] = "done" => WellFormed(ret[t])
    /\ \A r \in Roots : cache[r].present => WellFormed(cache[r])

\* A caller holds a gallery with two rows of one slot while another thread rebuilds
C7_Witness ==
    \E t, u \in Threads :
        /\ t # u
        /\ pc[t] = "done"
        /\ Len(ret[t].meta) >= 2
        /\ ret[t].meta[1] = ret[t].meta[2]
        /\ pc[u] \in {"load", "build"}

\* C8 (one caller, calls one after the other): a call that began after a call
\* on the same root had returned, with no write since that call began, does
\* not rebuild: it returns the object that call returned, which is still the
\* cache entry.
C8_NoRebuild ==
    \A t \in Threads :
        expect[t] # 0 =>
            /\ pc[t] \in {"check", "done"}
            /\ pc[t] = "done" =>
                  /\ ret[t].id = expect[t]
                  /\ cache[root[t]].present
                  /\ cache[root[t]].id = expect[t]

\* The second of two calls without a write between them has returned the
\* cached empty gallery
C8_Witness ==
    \E t \in Threads :
        /\ pc[t] = "done"
        /\ expect[t] # 0
        /\ ret[t].G.none
        /\ ret[t].id = expect[t]

\* C9: no two threads are between the cache lookup and the store of the
\* rebuilt entry of one root at the same time.
C9_MutualExclusion ==
    \A t, u \in Threads :
        (t # u /\ root[t] = root[u]) =>
            ~(pc[t] \in {"check", "load", "build"} /\ pc[u] \in {"check", "load", "build"})

-----------------------------------------------------------------------------
(* Claims about the matcher (SpecMatch)                                    *)

\* The similarities of the gallery rows to the normalised query
QuerySims == Sims(mIn.G, L2Normalize(mIn.q))

BestSim == CHOOSE x \in { QuerySims[i] : i \in DOMAIN QuerySims } :
               \A j \in DOMAIN QuerySims : x >= QuerySims[j]

MatchReturned == mOut.some /\ ~mIn.G.none /\ ~mOut.rec.raised

\* C4: on a non-empty gallery recognize_embedding returns an identity exactly
\* when the best similarity is >= threshold, and the best similarity either way.
C4_Threshold ==
    MatchReturned =>
        /\ mOut.rec.sid # "None" <=> BestSim >= mIn.th
        /\ mOut.rec.sim = BestSim

\* The best similarity equals the threshold and the query is accepted
C4_Witness ==
    /\ MatchReturned
    /\ BestSim = mIn.th
    /\ mOut.rec.sid # "None"

\* C5: on a non-empty gallery best_match_vectorized returns the (identity, view)
\* of the lowest row index among the rows of maximum similarity, with a
\* similarity >= that of every row.
C5_ArgMax ==
    MatchReturned =>
        LET first == CHOOSE i \in DOMAIN QuerySims :
                        /\ QuerySims[i] = BestSim
                        /\ \A j \in 1..(i - 1) : QuerySims[j] < BestSim
        IN  /\ mOut.best.sid = mIn.meta[first][1]
            /\ mOut.best.view = mIn.meta[first][2]
            /\ mOut.best.sim = QuerySims[first]
            /\ \A j \in DOMAIN QuerySims : mOut.best.sim >= QuerySims[j]

\* Two rows of different identities tie for the maximum
C5_Witness ==
    /\ MatchReturned
    /\ \E i, j \in DOMAIN QuerySims :
          /\ i < j
          /\ QuerySims[i] = BestSim
          /\ QuerySims[j] = BestSim
          /\ mIn.meta[i][1] # mIn.meta[j][1]

-----------------------------------------------------------------------------
(* Claims about the liveness evaluator (SpecLive)                          *)

\* C10: with landmarks None or fewer than 2 landmark points evaluate_liveness
\* returns checked=False, pass=False and score 0.0, whatever the image and box.
C10_FailClosed ==
    (lvOut.some /\ (lvIn.lm.none \/ Len(lvIn.lm.pts) < 2)) =>
        /\ ~lvOut.raised
        /\ ~lvOut.checked
        /\ ~lvOut.pass
        /\ lvOut.score = 0

\* A single landmark point on a sharp, large face was evaluated
C10_Witness ==
    /\ lvOut.some
    /\ ~lvIn.lm.none
    /\ Len(lvIn.lm.pts) = 1
    /\ lvIn.blur >= BLUR_THRESHOLD
    /\ ~lvOut.checked

\* C26: in every evaluate_liveness call with two landmark points or more that
\* returns, each of the three sub-scores lies in [0, 1], score is their mean
\* (so it lies in [0, 1] too), and pass is true exactly when score is at least
\* LIVENESS_MIN_SCORE.
C26_LivenessScore ==
    (lvOut.some /\ ~lvIn.lm.none /\ Len(lvIn.lm.pts) >= 2 /\ ~lvOut.raised) =>
        LET s == SubScores(lvIn)
            sum == s[1] + s[2] + s[3]
        IN  /\ lvOut.checked
            /\ \A i \in 1..3 : 0 <= s[i] /\ s[i] <= ScoreOne
            /\ 3 * lvOut.score <= sum /\ sum < 3 * (lvOut.score + 1)
            /\ 0 <= lvOut.score /\ lvOut.score <= ScoreOne
            /\ lvOut.pass <=> (lvOut.score * 100 >= LIVENESS_MIN_SCORE * ScoreOne)

\* A verdict whose sub-scores are not all capped: a sharp face with the eyes
\* closer together than the minimum, which still passes
C26_Witness ==
    /\ lvOut.some
    /\ lvOut.checked
    /\ lvOut.pass
    /\ lvOut.score < ScoreOne
    /\ \E i \in 1..3 : 0 < SubScores(lvIn)[i] /\ SubScores(lvIn)[i] < ScoreOne

-----------------------------------------------------------------------------
(* Claims about the head-turn challenge (SpecChallenge)                    *)

\* The frames of the burst that yield a nose ratio: three landmark points or more
UsableFrames ==
    { i \in DOMAIN chIn.frames :
        ~chIn.frames[i].lm.none /\ Len(chIn.frames[i].lm.pts) >= 3 }

\* Numerator and denominator of the nose ratio of a usable frame
NoseOffset(i) == chIn.frames[i].lm.pts[3][1] - chIn.frames[i].bbox[1]
BoxWidth(i) == Max(1, chIn.frames[i].bbox[3] - chIn.frames[i].bbox[1])

SomeLeft == \E i \in UsableFrames : 100 * NoseOffset(i) <= 42 * BoxWidth(i)
SomeRight == \E i \in UsableFrames : 100 * NoseOffset(i) >= 58 * BoxWidth(i)
SomeCenter ==
    \E i \in UsableFrames :
        /\ 100 * NoseOffset(i) >= 42 * BoxWidth(i)
        /\ 100 * NoseOffset(i) <= 58 * BoxWidth(i)

KnownChallenges == { "turn_left", "turn_right", "left_right" }

\* C11: with at least 2 usable nose ratios and a known challenge type the
\* verdict has ok=True, and pass is (left and center) for turn_left, (right and
\* center) for turn_right, (left and right and center) for left_right.
C11_ChallengeVerdict ==
    (chOut.some /\ Cardinality(UsableFrames) >= 2 /\ chIn.challenge \in KnownChallenges) =>
        /\ chOut.ok
        /\ chIn.challenge = "turn_left" => (chOut.pass <=> (SomeLeft /\ SomeCenter))
        /\ chIn.challenge = "turn_right" => (chOut.pass <=> (SomeRight /\ SomeCenter))
        /\ chIn.challenge = "left_right" =>
              (chOut.pass <=> (SomeLeft /\ SomeRight /\ SomeCenter))

\* Ratios 0.3, 0.5, 0.7 passed left_right
C11_Witness ==
    /\ chOut.some
    /\ chIn.challenge = "left_right"
    /\ Len(chIn.frames) = 3
    /\ UsableFrames = {1, 2, 3}
    /\ \A i \in 1..3 : BoxWidth(i) = 100
    /\ NoseOffset(1) = 30 /\ NoseOffset(2) = 50 /\ NoseOffset(3) = 70
    /\ chOut.pass

\* C12 as stated: whatever the frames, an unknown challenge type yields
\* ok=False, pass=False and the reason "invalid_challenge".
C12_InvalidChallengeAlways ==
    (chOut.some /\ chIn.challenge \notin KnownChallenges) =>
        /\ ~chOut.ok
        /\ ~chOut.pass
        /\ chOut.reason = "invalid_challenge"

\* C12, amended: an unknown challenge type yields ok=False and pass=False; the
\* reason is "no_frames" for an empty burst, "no_landmarks" when fewer than 2
\* frames yield a ratio, and "invalid_challenge" otherwise.
C12_InvalidChallenge ==
    (chOut.some /\ chIn.challenge \notin KnownChallenges) =>
        /\ ~chOut.ok
        /\ ~chOut.pass
        /\ chOut.reason =
              IF chIn.frames = << >> THEN "no_frames"
              ELSE IF Cardinality(UsableFrames) < 2 THEN "no_landmarks"
              ELSE "invalid_challenge"

\* An unknown challenge type on a burst with two usable frames and one without
C12_Witness ==
    /\ chOut.some
    /\ chIn.challenge \notin KnownChallenges
    /\ Cardinality(UsableFrames) = 2
    /\ Len(chIn.frames) = 3
    /\ chOut.reason = "invalid_challenge"

\* All frames of the burst are usable and have one and the same nose ratio
StaticBurst ==
    /\ chIn.frames # << >>
    /\ UsableFrames = DOMAIN chIn.frames
    /\ \A i, j \in DOMAIN chIn.frames :
          NoseOffset(i) * BoxWidth(j) = NoseOffset(j) * BoxWidth(i)

\* C13: a burst whose frames all have the same nose ratio never yields
\* pass=True, whatever the challenge type, the ratio and the number of frames.
C13_StaticRejected == (chOut.some /\ StaticBurst) => ~chOut.pass

-----------------------------------------------------------------------------
(* Claims about top_k_matches (SpecTopK)                                   *)

\* The similarities of the gallery rows to the normalised query
TopKSims == Sims(tkIn.G, L2Normalize(tkIn.q))

TopKReturned == tkOut.some /\ ~tkOut.raised

ReturnedRows == { tkOut.out[n].row : n \in DOMAIN tkOut.out }

\* The returned tuples are distinct rows with their own identity and
\* similarity, in non-increasing order of similarity, and no row left out has
\* a larger similarity than a returned one
RankedBest ==
    /\ \A n \in DOMAIN tkOut.out :
          /\ tkOut.out[n].row \in DOMAIN TopKSims
          /\ tkOut.out[n].sim = TopKSims[tkOut.out[n].row]
          /\ tkOut.out[n].sid = tkIn.meta[tkOut.out[n].row][1]
          /\ tkOut.out[n].view = tkIn.meta[tkOut.out[n].row][2]
    /\ Cardinality(ReturnedRows) = Len(tkOut.out)
    /\ \A n \in 1..(Len(tkOut.out) - 1) : tkOut.out[n].sim >= tkOut.out[n + 1].sim
    /\ \A n \in DOMAIN tkOut.out :
          \A j \in DOMAIN TopKSims \ ReturnedRows : tkOut.out[n].sim >= TopKSims[j]

\* C14 as stated: for every integer k, at most k tuples are returned, ranked
\* best first; an empty gallery gives the empty list.
C14_TopKAnyK ==
    TopKReturned =>
        IF tkIn.G.none THEN tkOut.out = << >>
        ELSE /\ Len(tkOut.out) <= tkOut.k
             /\ RankedBest

\* C14, amended: on a non-empty gallery of N rows top_k_matches returns
\* min(k, N) tuples for k >= 1 and one tuple for k <= 0, ranked best first and
\* no worse than any row left out; an empty gallery gives the empty list.
C14_TopK ==
    TopKReturned =>
        IF tkIn.G.none THEN tkOut.out = << >>
        ELSE /\ Len(tkOut.out) =
                  IF tkOut.k <= 0 THEN 1
                  ELSE IF tkOut.k < Len(TopKSims) THEN tkOut.k ELSE Len(TopKSims)
             /\ RankedBest

\* k = 3 on four rows whose best similarity is not in the first row: three
\* tuples came back, the weakest row was left out
C14_Witness ==
    /\ TopKReturned
    /\ tkOut.k = 3
    /\ Len(TopKSims) = 4
    /\ Len(tkOut.out) = 3
    /\ tkOut.out[1].row # 1
    /\ tkOut.out[1].sim > tkOut.out[3].sim
    /\ \E j \in DOMAIN TopKSims \ ReturnedRows : TopKSims[j] < tkOut.out[3].sim

-----------------------------------------------------------------------------
(* Claims about scan_image (SpecScan)                                      *)

\* C15: for the same image, gallery and parameters the request with debug
\* top-K enabled accepts the same set of student identities and completes
\* with the same outcome as the request with debug disabled.
C15_DebugNoninterference ==
    (scOut[TRUE].some /\ scOut[FALSE].some) =>
        /\ scOut[TRUE].ids = scOut[FALSE].ids
        /\ scOut[TRUE].status = scOut[FALSE].status

-----------------------------------------------------------------------------
(* Claims about the feature-extraction engine (SpecEngine)                 *)

\* C20: whatever the interleaving of concurrent get_engine calls, _init_engine
\* is executed at most once, and only by a thread that holds the lock.
C20_InitOnce ==
    /\ inits <= 1
    /\ \A t \in Threads : epc[t] \in {"inner", "release"} => lock = t

\* Both threads found _engine None at line 54; the second now holds the lock
\* and finds the engine the first one made
C20_Witness ==
    \E t, u \in Threads :
        /\ t # u
        /\ eret[t] = 1
        /\ epc[u] = "inner"
        /\ lock = u
        /\ engine = 1
        /\ inits = 1

\* C21: once a get_engine call has returned an initialised engine, every
\* get_engine call that returns after it returns that same engine object.
C21_EngineReused ==
    [][\A u \in Threads : eret[u] > 0 =>
          \A t \in Threads : eret'[t] # eret[t] => eret'[t] = eret[u]]_vars

-----------------------------------------------------------------------------
(* Claims about feature extraction (SpecExtract)                           *)

\* C22: a scan request made while the model files are missing takes the
\* fallback path and completes without raising, whatever the gallery holds.
C22_FallbackCompletes ==
    (xOut.some /\ ~models) => (xOut.engine = 0 /\ xOut.status = 200)

-----------------------------------------------------------------------------
(* Claims about the cache of several roots (SpecRoots)                     *)

\* C23: a load_gallery_cached call touches the cache entry of its own root
\* only: an entry changes only in the step in which a call on that root stores
\* what it built, and what a call returns is the entry of its own root.
C23_RootIsolation ==
    [][/\ \A r \in Roots :
             cache'[r] # cache[r] =>
                 \E t \in Threads : pc[t] = "build" /\ pc'[t] = "done" /\ root[t] = r
       /\ \A t \in Threads :
             (ret'[t] # ret[t] /\ ret'[t] # NoRet) =>
                 /\ ret'[t].id = cache'[root[t]].id
                 /\ ret'[t].G = cache'[root[t]].G
                 /\ ret'[t].meta = cache'[root[t]].meta]_vars

\* The entry of TEST_DIR was cached first and is still the one built from its
\* file, after a save to EMB_DIR and a call on EMB_DIR that cached its gallery
C23_Witness ==
    /\ cache[TEST_DIR].present
    /\ cache[TEST_DIR].meta = << <<"s1", "front">> >>
    /\ cache[EMB_DIR].present
    /\ ~cache[EMB_DIR].G.none
    /\ cache[EMB_DIR].id > cache[TEST_DIR].id

-----------------------------------------------------------------------------
(* Claims about enrollment (SpecEnroll)                                    *)

\* C24: whatever the interleaving of add_embedding requests, at most one
\* sample is ever written to a (student, view) slot, and a request that ended
\* in an error response wrote none.
C24_WriteOnce ==
    /\ \A sl \in Slots : Len(hist[sl].seq) <= 1
    /\ \A t \in Threads :
          (apc[t] = "done" /\ aresp[t].status # 200) => ~aresp[t].wrote

-----------------------------------------------------------------------------
(* Claims about cropping (SpecCrop)                                        *)

\* The pixels of the image inside the box grown by pad on every side
PaddedBoxPixels ==
    { px \in (0..(crIn.w - 1)) \X (0..(crIn.h - 1)) :
        /\ crIn.box[1] - crIn.pad <= px[1] /\ px[1] < crIn.box[3] + crIn.pad
        /\ crIn.box[2] - crIn.pad <= px[2] /\ px[2] < crIn.box[4] + crIn.pad }

\* C25: for every image, box and pad >= 0 the bounds crop_face_xyxy slices
\* with satisfy 0 <= x1' <= x2' <= W and 0 <= y1' <= y2' <= H, and the
\* slice is the padded box intersected with the image.
C25_CropInside ==
    crOut.some =>
        /\ 0 <= crOut.rect[1] /\ crOut.rect[1] <= crOut.rect[3] /\ crOut.rect[3] <= crIn.w
        /\ 0 <= crOut.rect[2] /\ crOut.rect[2] <= crOut.rect[4] /\ crOut.rect[4] <= crIn.h
        /\ crOut.pixels = PaddedBoxPixels

-----------------------------------------------------------------------------
(* Claims about the gates of scan_image and benchmark (SpecGates)          *)

\* The first gate a face fails, "" when it passes them all
FirstFailedGate(face) ==
    LET liveness == evaluate_liveness([w |-> scIn.w, h |-> scIn.h, bbox |-> face.bbox,
                                       lm |-> face.lm, blur |-> face.blur])
    IN  IF face.det < OPENCV_DET_THRESH THEN "low_det_score"
        ELSE IF face.blur < scIn.blur_threshold THEN "blur"
        ELSE IF scIn.liveness_enabled /\ ~liveness.checked /\ scIn.liveness_required
        THEN "liveness_unavailable"
        ELSE IF scIn.liveness_enabled /\ liveness.checked /\ ~liveness.pass
        THEN "liveness_failed"
        ELSE ""

\* What became of a face the matcher was called for
MatcherReasons == { "below_threshold", "not_enrolled", "cooldown", "matched" }

GatesFirstIn(resp) ==
    (resp.some /\ resp.status = 200) =>
        /\ \A i \in DOMAIN scIn.faces :
              LET gate == FirstFailedGate(scIn.faces[i])
              IN  /\ resp.reasons[i] \in MatcherReasons => gate = ""
                  /\ gate # "" => resp.reasons[i] = gate
        /\ \A sid \in resp.ids :
              \E i \in DOMAIN scIn.faces :
                  resp.reasons[i] = "matched" /\ FirstFailedGate(scIn.faces[i]) = ""

\* C27: in scan_image and benchmark a face reaches the matcher, and can be
\* among the matches, only if it passes the detection-score, blur and liveness
\* gates; the gates are tested in that order and a skipped face carries the
\* reason of the first gate it fails.
C27_GatesFirst ==
    \A debug \in BOOLEAN : GatesFirstIn(scOut[debug]) /\ GatesFirstIn(bmOut[debug])

\* Both handlers answered a photo of a weak and blurred face, skipped for its
\* detection score, and a face that was matched
C27_Witness ==
    /\ scOut[FALSE].some /\ scOut[FALSE].status = 200
    /\ bmOut[FALSE].some /\ bmOut[FALSE].status = 200
    /\ \E i, j \in DOMAIN scIn.faces :
          /\ scIn.faces[i].det < OPENCV_DET_THRESH
          /\ scIn.faces[i].blur < scIn.blur_threshold
          /\ scOut[FALSE].reasons[i] = "low_det_score"
          /\ bmOut[FALSE].reasons[i] = "low_det_score"
          /\ scOut[FALSE].reasons[j] = "matched"
          /\ bmOut[FALSE].reasons[j] = "matched"

-----------------------------------------------------------------------------
(* Claims about the tracker (SpecTracker)                                  *)

TrackIds(trk) == { trk[i].id : i \in DOMAIN trk }

\* C29: in every update a matched track is kept with the count 0; an
\* unmatched track is kept, in the table and in the returned list, with its
\* count raised by one while that count is at most max_missing, and is
\* removed in the update in which the count exceeds max_missing; ids are
\* unique, a new track gets an id larger than every id given before, and the
\* id of a removed track is never given again.
C29_TrackLifetime ==
    [][used'.updates # used.updates =>
          /\ \A i \in DOMAIN tracks :
                LET tr == tracks[i]
                IN  IF tr.id \in tmatched'
                    THEN \E j \in DOMAIN tracks' :
                            tracks'[j].id = tr.id /\ tracks'[j].missing = 0
                    ELSE IF tr.missing + 1 <= max_missing
                    THEN /\ \E j \in DOMAIN tracks' :
                               /\ tracks'[j].id = tr.id
                               /\ tracks'[j].missing = tr.missing + 1
                         /\ \E k \in DOMAIN tret' : tret'[k].track_id = tr.id
                    ELSE /\ tr.id \notin TrackIds(tracks')
                         /\ \A k \in DOMAIN tret' : tret'[k].track_id # tr.id
          /\ \A j \in DOMAIN tracks' :
                /\ tracks'[j].missing <= max_missing
                /\ tracks'[j].id < next_id'
                /\ tracks'[j].id \notin TrackIds(tracks) =>
                       tracks'[j].id >= next_id /\ tracks'[j].id \notin tgone
                /\ \A k \in DOMAIN tracks' : k # j => tracks'[k].id # tracks'[j].id
          /\ TrackIds(tracks') \cap tgone' = {}]_vars

\* With max_missing 1 or more a track was removed, another has gone unmatched
\* once and is still in the table, and a track with a later id was created
C29_Witness ==
    /\ max_missing >= 1
    /\ tgone # {}
    /\ \E i, j \in DOMAIN tracks :
          /\ tracks[i].missing >= 1
          /\ \E k \in DOMAIN tret : tret[k].track_id = tracks[i].id
          /\ \A g \in tgone : tracks[j].id > g

-----------------------------------------------------------------------------
(* Claims about live attendance (SpecMark)                                 *)

\* C30: a mark request for a student is posted from a track only when the
\* track has gathered confirm_frames votes for that student from fresh
\* recognitions with no recognition of another student on the track in
\* between, and never less than cooldown_seconds after the last recorded mark
\* of the student; after the post the track's vote count is 0.
C30_MarkDiscipline ==
    \A p \in posts :
        /\ p.run >= lparams.confirm_frames
        /\ p.marked_before => p.since >= lparams.cooldown_seconds
        /\ GetOr(track_votes, p.tid, NoVotes).cnt = 0

=============================================================================
